---- MODULE Spec2Model ----
(***************************************************************************)
(* A model of the deblender's baseline utilities (BaselineUtils.cc):       *)
(* symmetrizeFootprint, buildSymmetricTemplate, makeMonotonic,             *)
(* nearestFootprint, medianFilter, apportionFlux with _find_stray_flux,    *)
(* hasSignificantFluxAtEdge and getSignificantEdgePixels.  Every routine   *)
(* is a single-threaded function of its arguments; each has a specification*)
(* whose initial states enumerate the arguments and whose actions are the  *)
(* routine's steps.                                                        *)
(*                                                                         *)
(* Pixels are pairs <<x, y>>.  A Span is a record [y, x0, x1] with         *)
(* x0 <= x1.  A SpanSet is a sequence of spans, sorted by (y, x0, x1),     *)
(* non-overlapping and with adjacent runs merged, as the afw SpanSet       *)
(* constructor leaves it.  Iterators into a SpanSet are indices:           *)
(* begin() = 1, end() = Len + 1, and the position before begin() is 0.     *)
(***************************************************************************)
EXTENDS Integers, Sequences, FiniteSets, TLC

\* ------------------------------------------------------------------ bounds

\* symmetrizeFootprint: footprints are the subsets of a SymW x SymH grid.
SymW == 4
SymH == 3

\* symmetrizeFootprint, termination: footprints on grids up to TermW wide
\* and TermH high with at most TermArea pixels, so that rows can be missing
\* on either side of the peak.
TermW == 3
TermH == 5
TermArea == 10

\* buildSymmetricTemplate: the image is TmplW x TmplH, the footprints are
\* its subsets, and the image values are ramps shifted by 0..MaxShift.
TmplW == 3
TmplH == 3
MaxShift == 2

\* makeMonotonic: images of width <= MonoW, height <= MonoH and at most
\* MonoArea pixels, with origin (MonoX0, MonoY0) and values 0..MaxPix.
MonoW == 7
MonoH == 3
MonoArea == 9
MonoX0 == 0
MonoY0 == 0
MaxPix == 1

\* nearestFootprint: up to NfCount footprints of at most NfSpans spans each
\* inside a box NfW wide and NfH high.
NfW == 3
NfH == 3
NfCount == 2
NfSpans == 2

\* medianFilter: images of width <= MedW, height <= MedH, values 0..MedMax,
\* halfsize <= MedHalf.
MedW == 4
MedH == 3
MedHalf == 1
MedMax == 1

\* apportionFlux: everything lies in a world ApW wide and ApH high; up to
\* ApN templates.
ApW == 3
ApH == 2
ApN == 2

\* hasSignificantFluxAtEdge, getSignificantEdgePixels: footprints and images
\* on a grid EdgeW wide and EdgeH high, image values and thresholds up to
\* EdgeMax.
EdgeW == 4
EdgeH == 3
EdgeMax == 1

\* ----------------------------------------------------------------- helpers

Min(a, b) == IF a < b THEN a ELSE b

Max(a, b) == IF a > b THEN a ELSE b

Abs(a) == IF a < 0 THEN 0 - a ELSE a

Span(y, x0, x1) == [y |-> y, x0 |-> x0, x1 |-> x1]

\* a null PTR(Footprint): told from every SpanSet by its span with x1 < x0,
\* which no SpanSet holds
Null == <<Span(0, 0, -1)>>

\* afwGeom::Span::operator<, through span_compare: lexicographic (y, x0, x1)
span_compare(sp1, sp2) ==
    \/ sp1.y < sp2.y
    \/ sp1.y = sp2.y /\ sp1.x0 < sp2.x0
    \/ sp1.y = sp2.y /\ sp1.x0 = sp2.x0 /\ sp1.x1 < sp2.x1

\* Span::contains(x, y)
SpanContains(sp, x, y) == sp.y = y /\ sp.x0 <= x /\ x <= sp.x1

PixelsOfSpan(sp) == {<<x, sp.y>> : x \in sp.x0..sp.x1}

\* the pixels of a sequence of spans
PixelsOf(spans) == UNION {PixelsOfSpan(spans[i]) : i \in 1..Len(spans)}

\* the maximal horizontal runs of a finite pixel set
RunsOf(P) ==
    {Span(p[2], p[1], q[1]) : <<p, q>> \in
        {pq \in P \X P :
            /\ pq[1][2] = pq[2][2]
            /\ pq[1][1] <= pq[2][1]
            /\ \A x \in pq[1][1]..pq[2][1] : <<x, pq[1][2]>> \in P
            /\ <<pq[1][1] - 1, pq[1][2]>> \notin P
            /\ <<pq[2][1] + 1, pq[1][2]>> \notin P}}

RECURSIVE SortSpans(_)
\* a set of spans as a sequence sorted by span_compare
SortSpans(S) ==
    IF S = {} THEN <<>>
    ELSE LET m == CHOOSE s \in S : \A t \in S \ {s} : span_compare(s, t)
         IN  <<m>> \o SortSpans(S \ {m})

\* SpanSet(std::vector<Span>): the normalising constructor sorts the spans
\* and merges the overlapping and the adjacent ones
SpanSet(spans) == SortSpans(RunsOf(PixelsOf(spans)))

\* the SpanSet of a pixel set
SpanSetOfPixels(P) == SortSpans(RunsOf(P))

\* the 180-degree rotation of a pixel about (cx, cy)
Mirror(p, cx, cy) == <<2 * cx - p[1], 2 * cy - p[2]>>

SymGrid == (0..(SymW - 1)) \X (0..(SymH - 1))

\* --------------------------------------------------------------- variables

VARIABLES
    op,         \* the routine this behaviour runs
    \* symmetrizeFootprint
    foot,       \* the footprint's SpanSet
    cx, cy,     \* the peak
    symPc,      \* "find", "sweep", "done"
    fwd, back,  \* the two RelativeSpanIterators (indices into foot)
    dy,         \* the row distance of the sweep
    tmpSpans,   \* the spans emitted so far
    sfoot,      \* the returned footprint's SpanSet, or Null
    oobRead,    \* a span was read at end() (undefined behaviour)
    \* buildSymmetricTemplate (with foot, cx, cy, sfoot, oobRead above)
    img,          \* the image plane of the MaskedImage, pixel -> value
    edgeMask,     \* the pixels whose mask carries the EDGE bit
    minZero, patchEdge,
    tmplPc,       \* "symmetrize", "fill", "patch", "done"
    touchesEdge,
    targetimg,    \* the template image, pixel -> value (<<>> while null)
    patchedEdges, \* the out-parameter *patchedEdges
    \* makeMonotonic (with the peak cx, cy above)
    iW, iH,        \* img.getWidth(), img.getHeight()
    mimg,          \* the image being rewritten, <<px, py>> -> value
    shadowingImg,  \* the copy that casts the shadows
    s,             \* the chunk's first ring
    monoIn,        \* the image as it was passed in
    monoPc,        \* "loop", "done"
    \* nearestFootprint
    foots,         \* the list of footprints (SpanSets)
    argmin, dist,  \* the two uint16 images, <<x, y>> -> value
    nfI,           \* the index of the footprint to stamp next
    nfPc,          \* "stamp", "forward", "backward", "done"
    \* medianFilter
    W, H,          \* img.getWidth(), img.getHeight()
    halfsize,
    inimg,         \* the input image, <<x, y>> -> value
    out,           \* the output image
    out0,          \* the output image as it was passed in
    medPc,         \* "median", "rows", "columns", "done"
    \* apportionFlux (with img and foot above)
    timgs,         \* the template images, each [bb, v]
    tfoots,        \* the template footprints (SpanSets)
    tsum,          \* the template sum image [null, bb, v]
    tsum0,         \* tsum as the caller passed it
    ispsf, pkx, pky,
    strays,        \* the caller's vector of HeavyFootprints
    strayFluxOptions,
    clipStrayFluxFraction,
    portions,      \* the return value being built
    nearest,       \* the label image of _find_stray_flux
    straySpans, straypix, straymask, strayvar, oobWrite,
    apPc,          \* the position in apportionFlux
    \* hasSignificantFluxAtEdge, getSignificantEdgePixels
    thresh,
    hasEdgeFlux,   \* the value hasSignificantFluxAtEdge returned
    significant,   \* the footprint getSignificantEdgePixels returned
    edgePc

symVars == <<foot, cx, cy, symPc, fwd, back, dy, tmpSpans, sfoot, oobRead>>

tmplVars == <<img, edgeMask, minZero, patchEdge, tmplPc, touchesEdge,
              targetimg, patchedEdges>>

monoVars == <<iW, iH, mimg, shadowingImg, s, monoIn, monoPc>>

nfVars == <<foots, argmin, dist, nfI, nfPc>>

medVars == <<W, H, halfsize, inimg, out, out0, medPc>>

apVars == <<timgs, tfoots, tsum, tsum0, ispsf, pkx, pky, strays,
            strayFluxOptions, clipStrayFluxFraction, portions, nearest,
            straySpans, straypix, straymask, strayvar, oobWrite, apPc>>

edgeVars == <<thresh, hasEdgeFlux, significant, edgePc>>

vars == <<op, symVars, tmplVars, monoVars, nfVars, medVars, apVars, edgeVars>>

\* the variables of a routine that a behaviour does not run
SweepIdle ==
    symPc = "idle" /\ fwd = 0 /\ back = 0 /\ dy = 0 /\ tmpSpans = <<>>

TmplIdle ==
    /\ img = <<>> /\ edgeMask = {} /\ minZero = FALSE /\ patchEdge = FALSE
    /\ tmplPc = "idle" /\ touchesEdge = FALSE /\ targetimg = <<>>
    /\ patchedEdges = FALSE

FootIdle == foot = <<>> /\ sfoot = Null /\ oobRead = FALSE

MonoIdle ==
    /\ iW = 0 /\ iH = 0 /\ mimg = <<>> /\ shadowingImg = <<>> /\ s = 0
    /\ monoIn = <<>> /\ monoPc = "idle"

NfIdle ==
    foots = <<>> /\ argmin = <<>> /\ dist = <<>> /\ nfI = 0 /\ nfPc = "idle"

MedIdle ==
    /\ W = 0 /\ H = 0 /\ halfsize = 0 /\ inimg = <<>> /\ out = <<>>
    /\ out0 = <<>> /\ medPc = "idle"

ApIdle ==
    /\ timgs = <<>> /\ tfoots = <<>> /\ tsum = <<>> /\ tsum0 = <<>>
    /\ ispsf = <<>> /\ pkx = <<>> /\ pky = <<>> /\ strays = <<>>
    /\ strayFluxOptions = 0 /\ clipStrayFluxFraction = <<0, 1>>
    /\ portions = <<>> /\ nearest = <<>>
    /\ straySpans = <<>> /\ straypix = <<>> /\ straymask = <<>>
    /\ strayvar = <<>> /\ oobWrite = FALSE /\ apPc = "idle"

EdgeIdle ==
    thresh = 0 /\ hasEdgeFlux = FALSE /\ significant = Null /\ edgePc = "idle"

\* ------------------------------------------------------ RelativeSpanIterator

\* RelativeSpanIterator::notDone
notDone(spans, it, forward) ==
    IF forward THEN it < Len(spans) + 1 ELSE it >= 1

\* RelativeSpanIterator::operator++
Advance(it, forward) == IF forward THEN it + 1 ELSE it - 1

\* RelativeSpanIterator::dxlo
dxlo(spans, it, c, forward) ==
    IF forward THEN spans[it].x0 - c ELSE c - spans[it].x1

\* dxhi with the backward branch measuring from x1, as dxlo does
dxhi_fromX1(spans, it, c, forward) ==
    IF forward THEN spans[it].x1 - c ELSE c - spans[it].x1

\* RelativeSpanIterator::dxhi
dxhi(spans, it, c, forward) ==
    IF forward THEN spans[it].x1 - c ELSE c - spans[it].x0

\* RelativeSpanIterator::dy
itdy(spans, it, c) == Abs(spans[it].y - c)

RECURSIVE RowEnd(_, _, _, _, _)
\* the fend / bend loops: the first position from it on that is done or
\* lies in a row at a distance other than d
RowEnd(spans, it, c, d, forward) ==
    IF ~notDone(spans, it, forward) THEN it
    ELSE IF itdy(spans, it, c) # d THEN it
    ELSE RowEnd(spans, Advance(it, forward), c, d, forward)

RECURSIVE SkipLeft(_, _, _, _, _, _)
\* the "Advancing forward" / "Advancing backward" loops: step it while it
\* is not at the row end and its span lies wholly below lo
SkipLeft(spans, it, rowend, c, lo, forward) ==
    IF it # rowend /\ dxhi(spans, it, c, forward) < lo
    THEN SkipLeft(spans, Advance(it, forward), rowend, c, lo, forward)
    ELSE it

\* ------------------------------------------------------- symmetrizeFootprint

\* std::upper_bound(spans.begin(), spans.end(), target, span_compare): the
\* first position whose span is larger than target, or end()
upper_bound(spans, target) ==
    LET later == {i \in 1..Len(spans) : span_compare(target, spans[i])}
    IN  IF later = {} THEN Len(spans) + 1
        ELSE CHOOSE i \in later : \A j \in later : i <= j

\* sp = *peakspan; sp.contains(cx, cy).  Reading at end() is undefined
\* behaviour: the span read there may or may not contain the peak.
ReadContains(spans, it, x, y) ==
    IF it \in 1..Len(spans)
    THEN {[hit |-> SpanContains(spans[it], x, y), oob |-> FALSE]}
    ELSE {[hit |-> b, oob |-> TRUE] : b \in BOOLEAN}

\* "Find the Span containing the peak": the possible outcomes, each a
\* record [found, peakspan, oob]
FindPeakSpan(spans, x, y) ==
    LET ub == upper_bound(spans, Span(y, x, x))
    IN  IF ub = 1
        THEN {[found |-> r.hit, peakspan |-> ub, oob |-> r.oob] :
                 r \in ReadContains(spans, ub, x, y)}
        ELSE IF SpanContains(spans[ub - 1], x, y)
        THEN {[found |-> TRUE, peakspan |-> ub - 1, oob |-> FALSE]}
        ELSE {[found |-> r.hit, peakspan |-> ub, oob |-> r.oob] :
                 r \in ReadContains(spans, ub, x, y)}

\* the row step without "dy++"
NextRow_sameDy(st, fend, bend) ==
    [fwd |-> fend, back |-> bend, dy |-> st.dy, tmpSpans |-> st.tmpSpans]

\* "back = bend; fwd = fend; dy++; continue;" (lines 1119-1122, 1161-1164)
NextRow(st, fend, bend) ==
    [fwd |-> fend, back |-> bend, dy |-> st.dy + 1, tmpSpans |-> st.tmpSpans]

\* One pass through the body of "while (fwd.notDone() && back.notDone())",
\* on the sweep state st = [fwd, back, dy, tmpSpans].
SweepStep(spans, x, y, st) ==
    LET fdxlo == dxlo(spans, st.fwd, x, TRUE)
        bdxlo == dxlo(spans, st.back, x, FALSE)
        fend == RowEnd(spans, st.fwd, y, st.dy, TRUE)
        bend == RowEnd(spans, st.back, y, st.dy, FALSE)
        fwd1 == IF bdxlo > fdxlo
                THEN SkipLeft(spans, st.fwd, fend, x, bdxlo, TRUE)
                ELSE st.fwd
        back1 == IF ~(bdxlo > fdxlo) /\ fdxlo > bdxlo
                 THEN SkipLeft(spans, st.back, bend, x, fdxlo, FALSE)
                 ELSE st.back
        nextRow == NextRow(st, fend, bend)
    IN  IF back1 = bend \/ fwd1 = fend THEN nextRow
        ELSE
          LET lo == Max(dxlo(spans, fwd1, x, TRUE), dxlo(spans, back1, x, FALSE))
              hi == Min(dxhi(spans, fwd1, x, TRUE), dxhi(spans, back1, x, FALSE))
              emitted == IF lo <= hi
                     THEN st.tmpSpans \o
                          <<Span(y + st.dy, x + lo, x + hi),
                            Span(y - st.dy, x - hi, x - lo)>>
                     ELSE st.tmpSpans
              stepFwd == dxhi(spans, fwd1, x, TRUE) < dxhi(spans, back1, x, FALSE)
              fwd2 == IF stepFwd THEN Advance(fwd1, TRUE) ELSE fwd1
              back2 == IF stepFwd THEN back1 ELSE Advance(back1, FALSE)
          IN  IF back2 = bend \/ fwd2 = fend
              THEN NextRow([st EXCEPT !.tmpSpans = emitted], fend, bend)
              ELSE [fwd |-> fwd2, back |-> back2, dy |-> st.dy, tmpSpans |-> emitted]

\* the sweep state as the variables hold it
SweepState == [fwd |-> fwd, back |-> back, dy |-> dy, tmpSpans |-> tmpSpans]

SymInit ==
    /\ op = "symmetrizeFootprint"
    /\ \E P \in SUBSET SymGrid : foot = SpanSetOfPixels(P)
    /\ \E c \in SymGrid : cx = c[1] /\ cy = c[2]
    /\ symPc = "find"
    /\ fwd = 0 /\ back = 0 /\ dy = 0
    /\ tmpSpans = <<>>
    /\ sfoot = Null
    /\ oobRead = FALSE
    /\ TmplIdle /\ MonoIdle /\ NfIdle /\ MedIdle /\ ApIdle /\ EdgeIdle

\* lines 985-1050: locate the peak's span, or return a null footprint
SymFind ==
    /\ op = "symmetrizeFootprint" /\ symPc = "find"
    /\ \E o \in FindPeakSpan(foot, cx, cy) :
         /\ oobRead' = o.oob
         /\ IF o.found
            THEN /\ symPc' = "sweep"
                 /\ fwd' = o.peakspan /\ back' = o.peakspan
            ELSE /\ symPc' = "done"
                 /\ UNCHANGED <<fwd, back>>
    /\ UNCHANGED <<op, foot, cx, cy, dy, tmpSpans, sfoot, tmplVars, monoVars, nfVars, medVars, apVars, edgeVars>>

\* lines 1054-1169: one iteration of the sweep
SymSweep ==
    /\ op = "symmetrizeFootprint" /\ symPc = "sweep"
    /\ notDone(foot, fwd, TRUE) /\ notDone(foot, back, FALSE)
    /\ LET st == SweepStep(foot, cx, cy, SweepState)
       IN  /\ fwd' = st.fwd /\ back' = st.back /\ dy' = st.dy
           /\ tmpSpans' = st.tmpSpans
    /\ UNCHANGED <<op, foot, cx, cy, symPc, sfoot, oobRead, tmplVars, monoVars, nfVars, medVars, apVars, edgeVars>>

\* lines 1170-1171: the loop is over; build the SpanSet and return
SymReturn ==
    /\ op = "symmetrizeFootprint" /\ symPc = "sweep"
    /\ ~(notDone(foot, fwd, TRUE) /\ notDone(foot, back, FALSE))
    /\ sfoot' = SpanSet(tmpSpans)
    /\ symPc' = "done"
    /\ UNCHANGED <<op, foot, cx, cy, fwd, back, dy, tmpSpans, oobRead, tmplVars, monoVars, nfVars, medVars, apVars, edgeVars>>

SymNext == SymFind \/ SymSweep \/ SymReturn

SpecSym == SymInit /\ [][SymNext]_vars

\* The grids of the termination runs: the largest w x h with w <= TermW,
\* h <= TermH and w * h <= TermArea (the smaller grids' footprints are
\* among theirs).
TermShapes ==
    {wh \in (1..TermW) \X (1..TermH) :
        /\ wh[1] * wh[2] <= TermArea
        /\ ~\E vh \in (1..TermW) \X (1..TermH) :
              /\ vh # wh /\ vh[1] >= wh[1] /\ vh[2] >= wh[2]
              /\ vh[1] * vh[2] <= TermArea}

\* a call with the peak on a pixel of the footprint
SymTermInit ==
    /\ op = "symmetrizeFootprint"
    /\ \E wh \in TermShapes :
         \E P \in SUBSET ((0..(wh[1] - 1)) \X (0..(wh[2] - 1))) :
            /\ foot = SpanSetOfPixels(P)
            /\ \E c \in P : cx = c[1] /\ cy = c[2]
    /\ symPc = "find"
    /\ fwd = 0 /\ back = 0 /\ dy = 0
    /\ tmpSpans = <<>>
    /\ sfoot = Null
    /\ oobRead = FALSE
    /\ TmplIdle /\ MonoIdle /\ NfIdle /\ MedIdle /\ ApIdle /\ EdgeIdle

\* The routine is one thread that runs until it returns: a step that can
\* be taken is taken.
SpecSymTerm == SymTermInit /\ [][SymNext]_vars /\ WF_vars(SymNext)

SymmetricPart(F, x, y) == {p \in F : Mirror(p, x, y) \in F}

\* C1: for a peak that is a pixel of F, the returned footprint's pixels are
\* exactly the pixels of F whose mirror about the peak is also in F (so it
\* is a subset of F and invariant under the mirror).
C1_SymmetrizeIsAnd ==
    (op = "symmetrizeFootprint" /\ symPc = "done"
        /\ <<cx, cy>> \in PixelsOf(foot))
    => /\ sfoot # Null
       /\ PixelsOf(sfoot) = SymmetricPart(PixelsOf(foot), cx, cy)
       /\ PixelsOf(sfoot) \subseteq PixelsOf(foot)
       /\ \A p \in PixelsOf(sfoot) : Mirror(p, cx, cy) \in PixelsOf(sfoot)

\* a finished run on a footprint with several spans in some row, whose
\* result is a proper part of the footprint with more than the peak pixel
C1_Witness ==
    /\ op = "symmetrizeFootprint" /\ symPc = "done"
    /\ <<cx, cy>> \in PixelsOf(foot)
    /\ \E i \in 1..(Len(foot) - 1) : foot[i].y = foot[i + 1].y
    /\ sfoot # Null
    /\ PixelsOf(sfoot) # PixelsOf(foot)
    /\ Cardinality(PixelsOf(sfoot)) > 2

\* C2: for a peak that is not a pixel of F the routine returns a null
\* footprint and reads no span outside the span list.
C2_NullWhenPeakOutside ==
    (op = "symmetrizeFootprint" /\ symPc = "done"
        /\ <<cx, cy>> \notin PixelsOf(foot))
    => sfoot = Null /\ ~oobRead

\* ---------------------------------------------------- buildSymmetricTemplate

TmplGrid == (0..(TmplW - 1)) \X (0..(TmplH - 1))

\* The images tried: ramps over the grid and their negations.  Their values
\* are pairwise distinct, and between them the pixels are all positive, all
\* negative or of mixed sign.
TmplImages ==
    {[p \in TmplGrid |-> sgn * (p[1] + TmplW * p[2] - k)] :
        sgn \in {-1, 1}, k \in 0..MaxShift}

\* Box2I: [minX, maxX, minY, maxY]; the empty box has maxX < minX
EmptyBox == [minX |-> 0, maxX |-> -1, minY |-> 0, maxY |-> -1]

BoxOfPixels(P) ==
    IF P = {} THEN EmptyBox
    ELSE [minX |-> CHOOSE a \in {p[1] : p \in P} : \A p \in P : a <= p[1],
          maxX |-> CHOOSE a \in {p[1] : p \in P} : \A p \in P : a >= p[1],
          minY |-> CHOOSE a \in {p[2] : p \in P} : \A p \in P : a <= p[2],
          maxY |-> CHOOSE a \in {p[2] : p \in P} : \A p \in P : a >= p[2]]

\* Footprint::getBBox
getBBox(spans) == BoxOfPixels(PixelsOf(spans))

\* Box2I::contains(Point2I)
BoxContains(bb, p) ==
    bb.minX <= p[1] /\ p[1] <= bb.maxX /\ bb.minY <= p[2] /\ p[2] <= bb.maxY

BoxPixels(bb) == (bb.minX..bb.maxX) \X (bb.minY..bb.maxY)

\* new ImageT(bbox): an image over the box, every pixel 0
NewImage(bb) == [p \in BoxPixels(bb) |-> 0]

RECURSIVE Sweep(_, _, _, _)
\* the whole "while (fwd.notDone() && back.notDone())" loop
Sweep(spans, x, y, st) ==
    IF notDone(spans, st.fwd, TRUE) /\ notDone(spans, st.back, FALSE)
    THEN Sweep(spans, x, y, SweepStep(spans, x, y, st))
    ELSE st.tmpSpans

\* symmetrizeFootprint(foot, cx, cy) as one call: its possible results,
\* each a record [sfoot, oob]
symmetrizeFootprint(spans, x, y) ==
    {[sfoot |-> IF o.found
                THEN SpanSet(Sweep(spans, x, y,
                        [fwd |-> o.peakspan, back |-> o.peakspan,
                         dy |-> 0, tmpSpans |-> <<>>]))
                ELSE Null,
      oob |-> o.oob] : o \in FindPeakSpan(spans, x, y)}

\* TemplatePixel taking the forward pixel instead of the minimum
TemplatePixel_noMin(pixf, pixb, mz) ==
    IF mz THEN Max(pixf, 0) ELSE pixf

\* TemplatePixel without the clamp at zero
TemplatePixel_noClamp(pixf, pixb, mz) == Min(pixf, pixb)

\* lines 1279-1284: the value stored for a pixel and its mirror
TemplatePixel(pixf, pixb, mz) ==
    LET pix == Min(pixf, pixb)
    IN  IF mz THEN Max(pix, 0) ELSE pix

RECURSIVE FillPixels(_, _, _, _, _, _)
\* lines 1264-1288: the inner loop over one pair of spans, fx = f.x0 + j
\* going up and bx = b.x1 - j going down
FillPixels(T, I, f, b, j, mz) ==
    IF f.x0 + j > f.x1 THEN T
    ELSE LET pf == <<f.x0 + j, f.y>>
             pb == <<b.x1 - j, b.y>>
             pix == TemplatePixel(I[pf], I[pb], mz)
         IN  FillPixels([T EXCEPT ![pf] = pix, ![pb] = pix], I, f, b, j + 1, mz)

RECURSIVE FillSpans(_, _, _, _, _, _)
\* lines 1260-1289: "for (; fwd <= back; fwd++, back--)"
FillSpans(T, I, spans, f, b, mz) ==
    IF f <= b
    THEN FillSpans(FillPixels(T, I, spans[f], spans[b], 0, mz),
                   I, spans, f + 1, b - 1, mz)
    ELSE T

\* Box2I::include(Point2I)
BoxInclude(bb, p) ==
    IF bb.maxX < bb.minX
    THEN [minX |-> p[1], maxX |-> p[1], minY |-> p[2], maxY |-> p[2]]
    ELSE [minX |-> Min(bb.minX, p[1]), maxX |-> Max(bb.maxX, p[1]),
          minY |-> Min(bb.minY, p[2]), maxY |-> Max(bb.maxY, p[2])]

RECURSIVE GrowBox(_, _, _, _, _, _)
\* lines 1306-1320: grow bb by the span end points whose mirror about the
\* peak lies outside imbb
GrowBox(bb, imbb, ospans, i, x, y) ==
    IF i > Len(ospans) THEN bb
    ELSE LET sp == ospans[i]
             ym == y + (y - sp.y)
             bb0 == IF ~BoxContains(imbb, <<x + (x - sp.x0), ym>>)
                    THEN BoxInclude(bb, <<sp.x0, sp.y>>) ELSE bb
             bb1 == IF ~BoxContains(imbb, <<x + (x - sp.x1), ym>>)
                    THEN BoxInclude(bb0, <<sp.x1, sp.y>>) ELSE bb0
         IN  GrowBox(bb1, imbb, ospans, i + 1, x, y)

PatchSpan_whole(sp, imbb, x, y) ==
    LET ym == y + (y - sp.y)
        in0 == BoxContains(imbb, <<x + (x - sp.x0), ym>>)
        in1 == BoxContains(imbb, <<x + (x - sp.x1), ym>>)
    IN  IF in0 /\ in1 THEN <<>> ELSE <<Span(sp.y, sp.x0, sp.x1)>>

\* lines 1338-1359: the part of an original span that is patched in, as a
\* sequence of no or one span
PatchSpan(sp, imbb, x, y) ==
    LET ym == y + (y - sp.y)
        in0 == BoxContains(imbb, <<x + (x - sp.x0), ym>>)
        in1 == BoxContains(imbb, <<x + (x - sp.x1), ym>>)
        x0 == IF in0 THEN x + (x - (imbb.minX - 1)) ELSE sp.x0
        x1 == IF in1 THEN x + (x - (imbb.maxX + 1)) ELSE sp.x1
    IN  IF in0 /\ in1 THEN <<>> ELSE <<Span(sp.y, x0, x1)>>

RECURSIVE PatchSpans(_, _, _, _, _)
\* lines 1337-1370: the spans pushed onto newSpans, in order
PatchSpans(ospans, i, imbb, x, y) ==
    IF i > Len(ospans) THEN <<>>
    ELSE PatchSpan(ospans[i], imbb, x, y) \o PatchSpans(ospans, i + 1, imbb, x, y)

\* SpanSet::copyImage(src, dst) followed by lines 1362-1368: the symmetric
\* values over sspans, then the image's own values over the patched spans
PatchImage(T, I, bb, sspans, patched) ==
    [p \in BoxPixels(bb) |->
        IF p \in PixelsOf(patched) THEN I[p]
        ELSE IF p \in PixelsOf(sspans) THEN T[p]
        ELSE 0]

\* a patched span that reaches outside the new template image is written
\* through an iterator that has left the image
PatchInBounds(bb, patched) == PixelsOf(patched) \subseteq BoxPixels(bb)

TmplInit ==
    /\ op = "buildSymmetricTemplate"
    /\ \E P \in SUBSET TmplGrid : foot = SpanSetOfPixels(P)
    /\ \E c \in TmplGrid : cx = c[1] /\ cy = c[2]
    /\ img \in TmplImages
    /\ edgeMask = {p \in TmplGrid : p[1] = 0}
    /\ minZero \in BOOLEAN
    /\ patchEdge \in BOOLEAN
    /\ tmplPc = "symmetrize"
    /\ touchesEdge = FALSE
    /\ targetimg = <<>>
    /\ patchedEdges = FALSE
    /\ sfoot = Null
    /\ oobRead = FALSE
    /\ SweepIdle /\ MonoIdle /\ NfIdle /\ MedIdle /\ ApIdle /\ EdgeIdle

\* lines 1201-1250: symmetrize the footprint, return nulls if that fails,
\* and look for an EDGE bit on the symmetric footprint
TmplSymmetrize ==
    /\ op = "buildSymmetricTemplate" /\ tmplPc = "symmetrize"
    /\ \E r \in symmetrizeFootprint(foot, cx, cy) :
         /\ sfoot' = r.sfoot
         /\ oobRead' = r.oob
         /\ tmplPc' = IF r.sfoot = Null THEN "done" ELSE "fill"
         /\ touchesEdge' = (/\ r.sfoot # Null
                            /\ patchEdge
                            /\ PixelsOf(r.sfoot) \cap edgeMask # {})
    /\ UNCHANGED <<op, foot, cx, cy, symPc, fwd, back, dy, tmpSpans, monoVars, nfVars, medVars, apVars, edgeVars>>
    /\ UNCHANGED <<img, edgeMask, minZero, patchEdge, targetimg, patchedEdges>>

\* lines 1252-1289: the template over the symmetric footprint's box
TmplFill ==
    /\ op = "buildSymmetricTemplate" /\ tmplPc = "fill"
    /\ targetimg' = FillSpans(NewImage(getBBox(sfoot)), img, sfoot,
                              1, Len(sfoot), minZero)
    /\ tmplPc' = IF touchesEdge THEN "patch" ELSE "return"
    /\ UNCHANGED <<op, symVars, monoVars, nfVars, medVars, apVars, edgeVars>>
    /\ UNCHANGED <<img, edgeMask, minZero, patchEdge, touchesEdge, patchedEdges>>

\* lines 1291-1373: patch in the spans whose mirror is out of bounds
TmplPatch ==
    /\ op = "buildSymmetricTemplate" /\ tmplPc = "patch"
    /\ LET imbb == getBBox(foot)
           bb == GrowBox(getBBox(sfoot), imbb, foot, 1, cx, cy)
           patched == PatchSpans(foot, 1, imbb, cx, cy)
       IN  /\ targetimg' = PatchImage(targetimg, img, bb, sfoot, patched)
           /\ sfoot' = SpanSet(sfoot \o patched)
           /\ oobRead' = (oobRead \/ ~PatchInBounds(bb, patched))
    /\ tmplPc' = "return"
    /\ UNCHANGED <<op, foot, cx, cy, symPc, fwd, back, dy, tmpSpans, monoVars, nfVars, medVars, apVars, edgeVars>>
    /\ UNCHANGED <<img, edgeMask, minZero, patchEdge, touchesEdge, patchedEdges>>

\* lines 1375-1376
TmplReturn ==
    /\ op = "buildSymmetricTemplate" /\ tmplPc = "return"
    /\ patchedEdges' = touchesEdge
    /\ tmplPc' = "done"
    /\ UNCHANGED <<op, symVars, monoVars, nfVars, medVars, apVars, edgeVars>>
    /\ UNCHANGED <<img, edgeMask, minZero, patchEdge, touchesEdge, targetimg>>

TmplNext == TmplSymmetrize \/ TmplFill \/ TmplPatch \/ TmplReturn

SpecTmpl == TmplInit /\ [][TmplNext]_vars

\* the call has returned a template for a peak inside the footprint
TmplDone ==
    /\ op = "buildSymmetricTemplate" /\ tmplPc = "done"
    /\ <<cx, cy>> \in PixelsOf(foot)

\* C3: with no edge patching applied, every pixel p of G = symmetrize(F)
\* and its mirror q hold min(I(p), I(q)) in the template, clamped at 0
\* from below when minZero is set.
C3_TemplateIsMin ==
    (TmplDone /\ ~patchedEdges)
    => /\ sfoot # Null
       /\ DOMAIN targetimg = BoxPixels(getBBox(sfoot))
       /\ PixelsOf(sfoot) = SymmetricPart(PixelsOf(foot), cx, cy)
       /\ \A p \in PixelsOf(sfoot) :
            LET q == Mirror(p, cx, cy)
                m == IF img[p] < img[q] THEN img[p] ELSE img[q]
                v == IF minZero /\ m < 0 THEN 0 ELSE m
            IN  targetimg[p] = v /\ targetimg[q] = v

\* a template over several spans, without patching, where some pixel took
\* its mirror's smaller value and some pixel was clamped
C3_Witness ==
    /\ TmplDone /\ ~patchedEdges /\ minZero
    /\ Len(sfoot) > 2
    /\ \E p \in PixelsOf(sfoot) : targetimg[p] < img[p] /\ targetimg[p] > 0
    /\ \E p \in PixelsOf(sfoot) : targetimg[p] = 0 /\ img[p] < 0

\* C4 as stated: with minZero, whether or not edges were patched, every
\* pixel of the returned template is >= 0 and every pixel of the returned
\* footprint holds the same value as its mirror about the peak.
C4_NonNegativeSymmetric_AsStated ==
    (TmplDone /\ minZero /\ sfoot # Null)
    => /\ \A p \in DOMAIN targetimg : targetimg[p] >= 0
       /\ \A p \in PixelsOf(sfoot) :
            /\ Mirror(p, cx, cy) \in DOMAIN targetimg
            /\ targetimg[p] = targetimg[Mirror(p, cx, cy)]

\* C4 amended: with minZero, for either value of patchEdge, every pixel p
\* of the symmetrized footprint G has T(p) >= 0 and T(p) = T(mirror of p),
\* and every template pixel outside the patched spans is >= 0; a pixel
\* added by edge patching holds the image's own value, unclamped.
C4_NonNegativeSymmetric ==
    (TmplDone /\ minZero /\ sfoot # Null)
    => LET G == SymmetricPart(PixelsOf(foot), cx, cy)
           added == PixelsOf(sfoot) \ G
       IN  /\ G \subseteq PixelsOf(sfoot)
           /\ PixelsOf(sfoot) \subseteq DOMAIN targetimg
           /\ \A p \in G :
                /\ targetimg[p] >= 0
                /\ targetimg[p] = targetimg[Mirror(p, cx, cy)]
           /\ \A p \in (DOMAIN targetimg) \ added : targetimg[p] >= 0
           /\ \A p \in added : targetimg[p] = img[p]
           /\ (added # {}) => patchedEdges

\* a minZero template with patched edges: a patched pixel holds a negative
\* value, and the symmetric part has several pixels, one of them clamped
C4_Witness ==
    /\ TmplDone /\ minZero /\ patchedEdges
    /\ \E p \in PixelsOf(sfoot) \ SymmetricPart(PixelsOf(foot), cx, cy) :
         targetimg[p] < 0
    /\ \E p \in SymmetricPart(PixelsOf(foot), cx, cy) :
         img[p] < 0 /\ targetimg[p] = 0
    /\ Cardinality(SymmetricPart(PixelsOf(foot), cx, cy)) > 2

\* the pixels of span sp whose mirror about the peak is outside F's box
MirrorOutside(sp) ==
    {p \in PixelsOfSpan(sp) :
        ~BoxContains(getBBox(foot), Mirror(p, cx, cy))}

C29_SweepTerminates ==
    /\ <>(symPc = "done")
    /\ [][(symPc = "sweep" /\ symPc' = "sweep") =>
            (dy' >= dy /\ fwd' >= fwd /\ back' <= back)]_vars

\* a finished sweep over a footprint with the rows next to the peak's row
\* missing and rows beyond them present on both sides
C29_Witness ==
    /\ op = "symmetrizeFootprint" /\ symPc = "done"
    /\ <<cx, cy>> \in PixelsOf(foot)
    /\ \A i \in 1..Len(foot) : Abs(foot[i].y - cy) # 1
    /\ \E i \in 1..Len(foot) : foot[i].y = cy + 2
    /\ \E i \in 1..Len(foot) : foot[i].y = cy - 2
    /\ dy >= 3
    /\ Len(sfoot) >= 3


(***************************************************************************)

\* const int S = 5: the chunk length and the length of a shadow.
S == 5

\* const double A = 0.3, as the fraction ANum / ADen.
ANum == 3
ADen == 10

\* The geometry read at the top of makeMonotonic.
ix0 == MonoX0
iy0 == MonoY0

MonoShapes ==
    {wh \in (1..MonoW) \X (1..MonoH) : wh[1] * wh[2] <= MonoArea}

MonoPixels(w, h) == (0..(w - 1)) \X (0..(h - 1))

DW == Max(cx - ix0, ix0 + iW - cx)
DH == Max(cy - iy0, iy0 + iH - cy)

\* lround(sh * ds) for ds = t/lead - A (upper = FALSE) or ds = t/lead - A
\* + 2.0*A (upper = TRUE), as IEEE-754 double arithmetic evaluates it.  The
\* exact value is n/d below and lround rounds halves away from zero.  The
\* double result differs from the exact one only when the exact value is a
\* half-integer and the double product falls just short of it: that happens
\* for sh = 5 with t/lead = 1, -3/5, -2/5, -1/5 (upper bound) and t/lead = 1/5
\* (lower bound), where the half rounds toward zero.  The quotient t/lead is
\* correctly rounded, so the cases depend on the ratio only; they cover
\* every ring of half-length below 20.
ShortOfHalf(sh, t, lead, upper) ==
    /\ sh = 5
    /\ IF upper
       THEN 5 * t \in {5 * lead, -3 * lead, -2 * lead, -lead}
       ELSE 5 * t = lead

lround_slope(sh, t, lead, upper) ==
    LET sgn == IF lead > 0 THEN 1 ELSE -1
        n   == sgn * sh * (ADen * t + (IF upper THEN ANum ELSE -ANum) * lead)
        d   == sgn * ADen * lead
        a   == Abs(n)
        tie == (2 * a) % (2 * d) = d
        mag == IF tie /\ ShortOfHalf(sh, t, lead, upper)
               THEN a \div d
               ELSE (2 * a + d) \div (2 * d)
    IN  IF n >= 0 THEN mag ELSE -mag

\* The pixels shadowed by the ring pixel at offset (x, y) from the peak, in
\* image coordinates: the cone of length S along the columns beyond a
\* vertical edge of the ring (dx = 0), along the rows beyond a horizontal one.
Shadow_noSign(x, y, vertical, pcx, pcy, w, h) ==
    IF vertical
    THEN {q \in MonoPixels(w, h) :
            \E shx \in 1..S :
              \E shy \in lround_slope(shx, y, x, FALSE)..lround_slope(shx, y, x, TRUE) :
                q = <<pcx + x + shx - ix0, pcy + y + shy - iy0>>}
    ELSE {q \in MonoPixels(w, h) :
            \E shy \in 1..S :
              \E shx \in lround_slope(shy, x, y, FALSE)..lround_slope(shy, x, y, TRUE) :
                q = <<pcx + x + shx - ix0, pcy + y + shy - iy0>>}

Shadow(x, y, vertical, pcx, pcy, w, h) ==
    IF vertical
    THEN LET xsign == IF x > 0 THEN 1 ELSE -1
         IN  {q \in MonoPixels(w, h) :
                \E shx \in 1..S :
                  \E shy \in lround_slope(shx, y, x, FALSE)..lround_slope(shx, y, x, TRUE) :
                    q = <<pcx + x + xsign * shx - ix0, pcy + y + xsign * shy - iy0>>}
    ELSE LET ysign == IF y > 0 THEN 1 ELSE -1
         IN  {q \in MonoPixels(w, h) :
                \E shy \in 1..S :
                  \E shx \in lround_slope(shy, x, y, FALSE)..lround_slope(shy, x, y, TRUE) :
                    q = <<pcx + x + ysign * shx - ix0, pcy + y + ysign * shy - iy0>>}

CastShadow_assign(im, pix, x, y, vertical, pcx, pcy, w, h) ==
    LET sh == Shadow(x, y, vertical, pcx, pcy, w, h)
    IN  [q \in DOMAIN im |-> IF q \in sh THEN pix ELSE im[q]]

CastShadow_max(im, pix, x, y, vertical, pcx, pcy, w, h) ==
    LET sh == Shadow(x, y, vertical, pcx, pcy, w, h)
    IN  [q \in DOMAIN im |-> IF q \in sh THEN Max(im[q], pix) ELSE im[q]]

\* img(psx, psy) = std::min(img(psx, psy), pix) over the shadow of (x, y).
CastShadow(im, pix, x, y, vertical, pcx, pcy, w, h) ==
    LET sh == Shadow(x, y, vertical, pcx, pcy, w, h)
    IN  [q \in DOMAIN im |-> IF q \in sh THEN Min(im[q], pix) ELSE im[q]]

\* The i-th pixel (i = 0 .. 8L-1) of the walk round the ring of half-length
\* L: the walk starts at (L, -L) and the direction (dx, dy) changes every 2L
\* steps, so pixel i lies i % 2L steps along leg i / 2L.
RingPixel(L, i) ==
    LET leg == i \div (2 * L)
        k   == i % (2 * L)
        ldx == (leg % 2) * (-1 + 2 * (leg \div 2))
        ldy == ((leg + 1) % 2) * (1 - 2 * (leg \div 2))
        lx  == IF leg \in {0, 1} THEN L ELSE -L
        ly  == IF leg \in {1, 2} THEN L ELSE -L
    IN  [x |-> lx + k * ldx, y |-> ly + k * ldy, dx |-> ldx, dy |-> ldy]

\* The ring pixels that cast a shadow, in the order of the walk: those the
\* bounds test does not skip.  The ring L = 0 has 8 * 0 = 0 pixels.
RingVisited(L, pcx, pcy, w, h) ==
    LET InBounds(r) ==
            LET px == pcx + r.x - ix0
                py == pcy + r.y - iy0
            IN  ~(px < 0 \/ px >= w \/ py < 0 \/ py >= h)
    IN  SelectSeq([i \in 1..(8 * L) |-> RingPixel(L, i - 1)], InBounds)

RECURSIVE RingWalk(_, _, _, _, _, _, _, _)
RingWalk(im, shim, ring, k, pcx, pcy, w, h) ==
    IF k > Len(ring) THEN im
    ELSE LET r   == ring[k]
             pix == shim[<<pcx + r.x - ix0, pcy + r.y - iy0>>]
         IN  RingWalk(CastShadow(im, pix, r.x, r.y, r.dx = 0, pcx, pcy, w, h),
                      shim, ring, k + 1, pcx, pcy, w, h)

\* for (p = 0; p < S; p++): the rings s + p, ..., s + S - 1 in turn.
RECURSIVE Chunk(_, _, _, _, _, _, _, _)
Chunk(im, shim, s0, p, pcx, pcy, w, h) ==
    IF p >= S THEN im
    ELSE Chunk(RingWalk(im, shim, RingVisited(s0 + p, pcx, pcy, w, h), 1,
                        pcx, pcy, w, h),
               shim, s0, p + 1, pcx, pcy, w, h)

MonoInit ==
    /\ op = "makeMonotonic"
    /\ \E wh \in MonoShapes :
         /\ iW = wh[1] /\ iH = wh[2]
         /\ mimg \in [MonoPixels(wh[1], wh[2]) -> 0..MaxPix]
         /\ cx \in ix0..(ix0 + wh[1] - 1)
         /\ cy \in iy0..(iy0 + wh[2] - 1)
    /\ shadowingImg = mimg
    /\ monoIn = mimg
    /\ s = 0
    /\ monoPc = "loop"
    /\ FootIdle /\ SweepIdle /\ TmplIdle /\ NfIdle /\ MedIdle /\ ApIdle /\ EdgeIdle

\* One chunk of S rings, then shadowingImg->assign(img).
MonoChunk ==
    /\ op = "makeMonotonic" /\ monoPc = "loop"
    /\ s < Max(DW, DH)
    /\ mimg' = Chunk(mimg, shadowingImg, s, 0, cx, cy, iW, iH)
    /\ shadowingImg' = mimg'
    /\ s' = s + S
    /\ UNCHANGED <<op, symVars, tmplVars, nfVars, medVars, apVars, edgeVars, iW, iH, monoIn, monoPc>>

MonoReturn ==
    /\ op = "makeMonotonic" /\ monoPc = "loop"
    /\ ~(s < Max(DW, DH))
    /\ monoPc' = "done"
    /\ UNCHANGED <<op, symVars, tmplVars, nfVars, medVars, apVars, edgeVars, iW, iH, mimg, shadowingImg, s, monoIn>>

MonoNext == MonoChunk \/ MonoReturn

SpecMono == MonoInit /\ [][MonoNext]_vars

MonoDone == op = "makeMonotonic" /\ monoPc = "done"

peakPix == <<cx - ix0, cy - iy0>>

\* C5: after makeMonotonic no pixel of the image is brighter than the peak
\* pixel.
C5_PeakIsMaximum ==
    MonoDone => \A p \in DOMAIN mimg : mimg[p] <= mimg[peakPix]

Adjacent8(p, q) == p # q /\ Abs(p[1] - q[1]) <= 1 /\ Abs(p[2] - q[2]) <= 1

\* The pixels that a path of 8-adjacent pixels reaches from R without ever
\* stepping to a brighter pixel.
RECURSIVE Downhill(_, _)
Downhill(im, R) ==
    LET N == {q \in DOMAIN im \ R :
                \E r \in R : Adjacent8(r, q) /\ im[q] <= im[r]}
    IN  IF N = {} THEN R ELSE Downhill(im, R \cup N)

\* C6: after makeMonotonic every pixel of the image is reached from the peak
\* by a path of 8-adjacent pixels along which the values never increase.
C6_NonIncreasingPath ==
    MonoDone => Downhill(mimg, {peakPix}) = DOMAIN mimg

\* the Chebyshev distance of an image pixel from the peak
Chebyshev(p) == Max(Abs(p[1] - peakPix[1]), Abs(p[2] - peakPix[2]))

\* every pixel is at most as bright as every pixel nearer the peak
Monotone(im) ==
    \A p, q \in DOMAIN im : Chebyshev(q) < Chebyshev(p) => im[p] <= im[q]

\* C26: on an input in which every pixel is <= every pixel at a strictly
\* smaller Chebyshev distance from the peak, makeMonotonic changes no pixel.
C26_IdentityOnMonotone ==
    (MonoDone /\ Monotone(monoIn)) => mimg = monoIn

\* a monotone input that is not constant, with bright pixels two or more
\* rings out that the rings inside cast their shadows on
C26_Witness ==
    /\ MonoDone /\ Monotone(monoIn) /\ mimg = monoIn
    /\ \E p \in DOMAIN monoIn : Chebyshev(p) >= 2 /\ monoIn[p] = 1
    /\ \E p \in DOMAIN monoIn : monoIn[p] = 0

\* C27: makeMonotonic never raises a pixel: at every point of the run each
\* pixel is <= its input value and holds the input value of some pixel of
\* the image, and the image keeps its pixels (nothing outside is written).
C27_NeverRaises ==
    op = "makeMonotonic" =>
        /\ DOMAIN mimg = MonoPixels(iW, iH)
        /\ DOMAIN shadowingImg = MonoPixels(iW, iH)
        /\ \A p \in DOMAIN mimg :
             /\ mimg[p] <= monoIn[p]
             /\ \E q \in DOMAIN monoIn : mimg[p] = monoIn[q]

\* a run on an image of ones with a single zero away from the peak, in
\* which the zero's shadow lowered a pixel
C27_Witness ==
    /\ MonoDone
    /\ Cardinality({p \in DOMAIN monoIn : monoIn[p] = 0}) = 1
    /\ monoIn[peakPix] = 1
    /\ \E p \in DOMAIN mimg : mimg[p] < monoIn[p]

nil == 65535

\* dtype and itype are std::uint16_t
UInt16(v) == v % 65536

width == NfW
height == NfH

NfGrid == (0..(width - 1)) \X (0..(height - 1))

NfFootprints ==
    {sp \in {SpanSetOfPixels(P) : P \in SUBSET NfGrid} : Len(sp) <= NfSpans}

\* SpanSet::setImage(image, val): val on every pixel of the spans.
setImage(im, spans, val) ==
    LET on == PixelsOf(spans)
    IN  [p \in DOMAIN im |-> IF p \in on THEN val ELSE im[p]]

\* ndist = dim(q) + 1; if (ndist < dim(p)) { dim(p) = ndist; aim(p) = aim(q); }
Relax_orEqual(st, p, q) ==
    LET ndist == UInt16(st.dist[q] + 1)
    IN  IF ndist <= st.dist[p]
        THEN [dist   |-> [st.dist EXCEPT ![p] = ndist],
              argmin |-> [st.argmin EXCEPT ![p] = st.argmin[q]]]
        ELSE st

Relax(st, p, q) ==
    LET ndist == UInt16(st.dist[q] + 1)
    IN  IF ndist < st.dist[p]
        THEN [dist   |-> [st.dist EXCEPT ![p] = ndist],
              argmin |-> [st.argmin EXCEPT ![p] = st.argmin[q]]]
        ELSE st

\* The body of the first traversal at pixel (x, y) of a w by h image.
ForwardPixel(st, x, y, w, h) ==
    LET p == <<x, y>>
    IN  IF st.dist[p] = 1
        THEN [st EXCEPT !.dist[p] = 0]
        ELSE LET s0 == [dist   |-> [st.dist EXCEPT ![p] = UInt16(w + h)],
                        argmin |-> [st.argmin EXCEPT ![p] = nil]]
                 s1 == IF y > 0 THEN Relax(s0, p, <<x, y - 1>>) ELSE s0
             IN  IF x > 0 THEN Relax(s1, p, <<x - 1, y>>) ELSE s1

\* The body of the second traversal at pixel (x, y).
BackwardPixel_southOnly(st, x, y, w, h) ==
    LET p == <<x, y>>
    IN  IF y + 1 < h THEN Relax(st, p, <<x, y + 1>>) ELSE st

BackwardPixel(st, x, y, w, h) ==
    LET p  == <<x, y>>
        s1 == IF y + 1 < h THEN Relax(st, p, <<x, y + 1>>) ELSE st
    IN  IF x + 1 < w THEN Relax(s1, p, <<x + 1, y>>) ELSE s1

\* for y = 0 .. height-1, for x = 0 .. width-1: pixel number k of the
\* traversal is (k % width, k / width).
RECURSIVE ForwardSweep(_, _, _, _)
ForwardSweep(st, k, w, h) ==
    IF k >= w * h THEN st
    ELSE ForwardSweep(ForwardPixel(st, k % w, k \div w, w, h), k + 1, w, h)

\* for y = height-1 .. 0, for x = width-1 .. 0.
RECURSIVE BackwardSweep(_, _, _, _)
BackwardSweep(st, k, w, h) ==
    IF k < 0 THEN st
    ELSE BackwardSweep(BackwardPixel(st, k % w, k \div w, w, h), k - 1, w, h)

NfInit ==
    /\ op = "nearestFootprint"
    /\ foots \in UNION {[1..n -> NfFootprints] : n \in 1..NfCount}
    /\ argmin = [p \in NfGrid |-> 0]
    /\ dist = [p \in NfGrid |-> 0]
    /\ nfI = 0
    /\ nfPc = "stamp"
    /\ cx = 0 /\ cy = 0
    /\ FootIdle /\ SweepIdle /\ TmplIdle /\ MonoIdle /\ MedIdle /\ ApIdle /\ EdgeIdle

\* One iteration of the loop over foots.
NfStamp ==
    /\ op = "nearestFootprint" /\ nfPc = "stamp"
    /\ nfI < Len(foots)
    /\ argmin' = setImage(argmin, foots[nfI + 1], UInt16(nfI))
    /\ dist' = setImage(dist, foots[nfI + 1], 1)
    /\ nfI' = nfI + 1
    /\ UNCHANGED <<op, symVars, tmplVars, monoVars, medVars, apVars, edgeVars, foots, nfPc>>

\* The traversal from bottom left to top right.
NfForward ==
    /\ op = "nearestFootprint" /\ nfPc = "stamp"
    /\ nfI = Len(foots)
    /\ LET st == ForwardSweep([dist |-> dist, argmin |-> argmin], 0,
                              width, height)
       IN  dist' = st.dist /\ argmin' = st.argmin
    /\ nfPc' = "backward"
    /\ UNCHANGED <<op, symVars, tmplVars, monoVars, medVars, apVars, edgeVars, foots, nfI>>

\* The traversal from top right to bottom left.
NfBackward ==
    /\ op = "nearestFootprint" /\ nfPc = "backward"
    /\ LET st == BackwardSweep([dist |-> dist, argmin |-> argmin],
                               width * height - 1, width, height)
       IN  dist' = st.dist /\ argmin' = st.argmin
    /\ nfPc' = "done"
    /\ UNCHANGED <<op, symVars, tmplVars, monoVars, medVars, apVars, edgeVars, foots, nfI>>

NfNext == NfStamp \/ NfForward \/ NfBackward

SpecNearest == NfInit /\ [][NfNext]_vars

NfDone == op = "nearestFootprint" /\ nfPc = "done"

L1(p, q) == Abs(p[1] - q[1]) + Abs(p[2] - q[2])

SetMin(V) == CHOOSE v \in V : \A u \in V : v <= u

SetMax(V) == CHOOSE v \in V : \A u \in V : v >= u

\* the pixels of footprint number i (counted from 0), and of all of them
FootPixels(i) == PixelsOf(foots[i + 1])

AllFootPixels == UNION {FootPixels(i) : i \in 0..(Len(foots) - 1)}

DistToSet(p, Q) == SetMin({L1(p, q) : q \in Q})

\* the footprints that attain the minimum distance at p
Nearest(p) ==
    {i \in 0..(Len(foots) - 1) :
        /\ FootPixels(i) # {}
        /\ DistToSet(p, FootPixels(i)) = DistToSet(p, AllFootPixels)}

\* C7: with at least one non-empty footprint, dist(p) is the minimum
\* Manhattan distance from p to a footprint pixel, and label(p) is the index
\* of a footprint that attains it, for every pixel p of the box.
C7_ExactManhattan ==
    (NfDone /\ AllFootPixels # {}) =>
        \A p \in NfGrid :
            /\ dist[p] = DistToSet(p, AllFootPixels)
            /\ argmin[p] \in Nearest(p)

C7_Witness ==
    /\ NfDone /\ Len(foots) = 2
    /\ FootPixels(0) # {} /\ FootPixels(1) # {}
    /\ \E p \in NfGrid : dist[p] = 3 /\ argmin[p] = 0
    /\ \E p \in NfGrid : dist[p] = 2 /\ argmin[p] = 1

\* C8 as stated: a pixel at the same minimum distance from several
\* footprints is labelled with the lowest of their indices.
C8_LowestIndexWins_AsStated ==
    (NfDone /\ AllFootPixels # {}) =>
        \A p \in NfGrid :
            Cardinality(Nearest(p)) >= 2 => argmin[p] = SetMin(Nearest(p))

\* the distance from p to the footprint pixels that lie neither east nor
\* south of it, width + height if there is none: what the first traversal
\* leaves in dist(p)
ForwardDist(p) ==
    LET Q == {q \in AllFootPixels : q[1] <= p[1] /\ q[2] <= p[2]}
    IN  IF Q = {} THEN width + height ELSE DistToSet(p, Q)

\* the 4-neighbour whose label p takes: the first traversal prefers the row
\* above to the column on the left, the second one replaces the label only
\* for a strictly smaller distance and prefers the row below to the column
\* on the right
LabelSource(p) ==
    LET d == DistToSet(p, AllFootPixels)
        north == <<p[1], p[2] - 1>>
        west  == <<p[1] - 1, p[2]>>
        south == <<p[1], p[2] + 1>>
        east  == <<p[1] + 1, p[2]>>
    IN  IF ForwardDist(p) = d
        THEN IF p[2] > 0 /\ ForwardDist(north) = d - 1 THEN north ELSE west
        ELSE IF p[2] + 1 < height /\ DistToSet(south, AllFootPixels) = d - 1
             THEN south ELSE east

\* C8, amended: ties go by traversal order, not by index.  A pixel on the
\* footprints is labelled with the highest index among the footprints that
\* cover it; a pixel off the footprints takes the label of the 4-neighbour
\* through which the traversals first reached its distance.
C8_TieBySweepOrder ==
    (NfDone /\ AllFootPixels # {}) =>
        \A p \in NfGrid :
            IF p \in AllFootPixels
            THEN argmin[p] =
                   SetMax({i \in 0..(Len(foots) - 1) : p \in FootPixels(i)})
            ELSE /\ LabelSource(p) \in NfGrid
                 /\ dist[LabelSource(p)] = dist[p] - 1
                 /\ argmin[p] = argmin[LabelSource(p)]

C8_Witness ==
    /\ NfDone
    /\ \E p \in NfGrid :
         /\ p \notin AllFootPixels
         /\ Nearest(p) = {0, 1}
         /\ argmin[p] = 1
    /\ \E p \in NfGrid :
         /\ p \in FootPixels(0) \cap FootPixels(1)
         /\ argmin[p] = 1

(***************************************************************************)
(* medianFilter                                                            *)
(***************************************************************************)

MedShapes ==
    {t \in (1..MedW) \X (1..MedH) \X (0..MedHalf) :
        t[1] >= 2 * t[3] + 1 /\ t[2] >= 2 * t[3] + 1}

MedPixels(w, h) == (0..(w - 1)) \X (0..(h - 1))

\* std::nth_element(vals, vals + SS/2, vals + SS); vals[SS/2]: the value at
\* position SS/2 (counted from 0) of the SS box values in ascending order.
BoxMedian(im, x, y, hs) ==
    LET box == ((x - hs)..(x + hs)) \X ((y - hs)..(y + hs))
        SS  == (2 * hs + 1) * (2 * hs + 1)
    IN  CHOOSE v \in {im[q] : q \in box} :
            /\ Cardinality({q \in box : im[q] < v}) <= SS \div 2
            /\ Cardinality({q \in box : im[q] <= v}) > SS \div 2

\* The first loop: the median of the box at every pixel with
\* halfsize <= x < W - halfsize and halfsize <= y < H - halfsize.
MedianLoop(im, o, w, h, hs) ==
    [p \in DOMAIN o |->
        IF /\ hs <= p[2] /\ p[2] < h - hs
           /\ hs <= p[1] /\ p[1] < w - hs
        THEN BoxMedian(im, p[1], p[2], hs)
        ELSE o[p]]

\* The rows the second loop copies: iy = y for y < halfsize and
\* iy = H - 1 - (y - halfsize) for halfsize <= y < 2 * halfsize.
MarginRows(h, hs) ==
    {IF y >= hs THEN h - 1 - (y - hs) ELSE y : y \in 0..(2 * hs - 1)}

RowMargins(im, o, w, h, hs) ==
    [p \in DOMAIN o |-> IF p[2] \in MarginRows(h, hs) THEN im[p] ELSE o[p]]

\* The columns the third loop copies in the rows halfsize .. H-halfsize-1:
\* 0 .. halfsize-1 on the left, and on the right from (W-1) - halfsize up
\* to but not including W-1.
MarginColumns(w, hs) == (0..(hs - 1)) \cup (((w - 1) - hs)..((w - 1) - 1))

ColumnMargins(im, o, w, h, hs) ==
    [p \in DOMAIN o |->
        IF hs <= p[2] /\ p[2] < h - hs /\ p[1] \in MarginColumns(w, hs)
        THEN im[p]
        ELSE o[p]]

MedInit ==
    /\ op = "medianFilter"
    /\ \E t \in MedShapes :
         /\ W = t[1] /\ H = t[2] /\ halfsize = t[3]
         /\ inimg \in [MedPixels(t[1], t[2]) -> 0..MedMax]
         /\ \E v \in 0..MedMax : out = [p \in MedPixels(t[1], t[2]) |-> v]
    /\ out0 = out
    /\ medPc = "median"
    /\ cx = 0 /\ cy = 0
    /\ FootIdle /\ SweepIdle /\ TmplIdle /\ MonoIdle /\ NfIdle /\ ApIdle /\ EdgeIdle

MedMedian ==
    /\ op = "medianFilter" /\ medPc = "median"
    /\ out' = MedianLoop(inimg, out, W, H, halfsize)
    /\ medPc' = "rows"
    /\ UNCHANGED <<op, symVars, tmplVars, monoVars, nfVars, apVars, edgeVars>>
    /\ UNCHANGED <<W, H, halfsize, inimg, out0>>

MedRows ==
    /\ op = "medianFilter" /\ medPc = "rows"
    /\ out' = RowMargins(inimg, out, W, H, halfsize)
    /\ medPc' = "columns"
    /\ UNCHANGED <<op, symVars, tmplVars, monoVars, nfVars, apVars, edgeVars>>
    /\ UNCHANGED <<W, H, halfsize, inimg, out0>>

MedColumns ==
    /\ op = "medianFilter" /\ medPc = "columns"
    /\ out' = ColumnMargins(inimg, out, W, H, halfsize)
    /\ medPc' = "done"
    /\ UNCHANGED <<op, symVars, tmplVars, monoVars, nfVars, apVars, edgeVars>>
    /\ UNCHANGED <<W, H, halfsize, inimg, out0>>

MedNext == MedMedian \/ MedRows \/ MedColumns

SpecMedian == MedInit /\ [][MedNext]_vars

MedDone == op = "medianFilter" /\ medPc = "done"

\* C9: after medianFilter every pixel at least halfsize away from all four
\* edges holds the median of the input box centred on it.
C9_InteriorIsMedian ==
    MedDone =>
        \A p \in DOMAIN out :
            (/\ halfsize <= p[1] /\ p[1] < W - halfsize
             /\ halfsize <= p[2] /\ p[2] < H - halfsize)
            => out[p] = BoxMedian(inimg, p[1], p[2], halfsize)

\* C10: after medianFilter every pixel within halfsize of an edge holds the
\* input value, whatever the output image held before.
C10_MarginsCopied ==
    MedDone =>
        \A p \in DOMAIN out :
            (\/ p[1] < halfsize \/ p[1] >= W - halfsize
             \/ p[2] < halfsize \/ p[2] >= H - halfsize)
            => out[p] = inimg[p]

(***************************************************************************)
(* apportionFlux                                                           *)
(*                                                                         *)
(* Pixel values are kept as exact fractions <<n, d>> (d > 0, in lowest     *)
(* terms): the floating-point rounding of the quotients is not modelled.   *)
(***************************************************************************)

RECURSIVE GCD(_, _)
GCD(a, b) == IF b = 0 THEN a ELSE GCD(b, a % b)

Q(n, d) ==
    LET sg == IF d < 0 THEN -1 ELSE 1
        g  == GCD(Abs(n), Abs(d))
    IN  <<(sg * n) \div g, (sg * d) \div g>>

QInt(n) == <<n, 1>>

QAdd(a, b) == Q(a[1] * b[2] + b[1] * a[2], a[2] * b[2])

QMul(a, b) == Q(a[1] * b[1], a[2] * b[2])

\* a / b for b # 0
QDiv(a, b) == Q(a[1] * b[2], a[2] * b[1])

QLess(a, b) == a[1] * b[2] < b[1] * a[2]

RECURSIVE QSum(_, _)
QSum(f, k) == IF k = 0 THEN QInt(0) ELSE QAdd(QSum(f, k - 1), f[k])

\* Box2I
Box(x0, y0, x1, y1) == [minX |-> x0, maxX |-> x1, minY |-> y0, maxY |-> y1]

BoxIsEmpty(bb) == bb.maxX < bb.minX \/ bb.maxY < bb.minY

\* Box2I::contains(Box2I): an empty box lies in every box
BoxContainsBox(bb, other) ==
    \/ BoxIsEmpty(other)
    \/ /\ other.minX >= bb.minX /\ other.maxX <= bb.maxX
       /\ other.minY >= bb.minY /\ other.maxY <= bb.maxY

\* Box2I::clip
BoxClip(bb, other) ==
    LET r == Box(Max(bb.minX, other.minX), Max(bb.minY, other.minY),
                 Min(bb.maxX, other.maxX), Min(bb.maxY, other.maxY))
    IN  IF BoxIsEmpty(bb) \/ BoxIsEmpty(other) \/ BoxIsEmpty(r)
        THEN EmptyBox ELSE r

\* the flag bits of strayFluxOptions
ASSIGN_STRAYFLUX == 1
STRAYFLUX_TO_POINT_SOURCES_WHEN_NECESSARY == 2
STRAYFLUX_TO_POINT_SOURCES_ALWAYS == 4
STRAYFLUX_R_TO_FOOTPRINT == 8
STRAYFLUX_NEAREST_FOOTPRINT == 16

\* options & bit
HasBit(options, bit) == (options \div bit) % 2 = 1

\* the inputs: the world, the parent images, footprints and templates
ApGrid == (0..(ApW - 1)) \X (0..(ApH - 1))

ApWorld == Box(0, 0, ApW - 1, ApH - 1)

ApSmallBox == Box(0, 0, ApW - 2, 0)

ApPattern(k, p) ==
    CASE k = 0 -> 2
      [] k = 1 -> p[1] + p[2] - 1
      [] k = 2 -> 1
      [] OTHER -> p[1] - 1

ApImage(bb, k) == [bb |-> bb, v |-> [p \in BoxPixels(bb) |-> ApPattern(k, p)]]

\* the mask and variance planes of the parent image
ImgMask(p) == 1 + p[1]
ImgVar(p) == 1 + p[2]

ApParentImages ==
    {ApImage(ApWorld, 0), ApImage(ApWorld, 1),
     ApImage(Box(0, 0, ApW - 2, ApH - 1), 1)}

ApFootprints ==
    {sp \in {SpanSetOfPixels(P) : P \in SUBSET ApGrid} : Len(sp) <= 1}

ApTemplates ==
    {[timg |-> ApImage(bb, k), tfoot |-> tf] :
        bb \in {ApWorld, ApSmallBox, Box(1, 0, ApW - 1, ApH - 1)},
        k \in {2, 3},
        tf \in {<<>>, <<Span(0, 0, 0)>>, <<Span(ApH - 1, 1, ApW - 1)>>}}

ApTsums ==
    {[null |-> TRUE, bb |-> EmptyBox, v |-> <<>>]} \cup
    {[null |-> FALSE, bb |-> bb, v |-> [p \in BoxPixels(bb) |-> c]] :
        bb \in {ApWorld}, c \in {0, 1}} \cup
    {[null |-> FALSE, bb |-> ApSmallBox, v |-> [p \in BoxPixels(ApSmallBox) |-> 0]]}

\* the pixel a default-constructed MaskedImage holds
ZeroPixel == [image |-> QInt(0), mask |-> 0, variance |-> 0]

\* what a read outside the parent image may return
ApGarbage == {[image |-> c, mask |-> 0, variance |-> 0] : c \in {0, 3}}

\* img(p) with its mask and variance; g for a read outside the image
ReadParent(im, p, g) ==
    IF p \in DOMAIN im
    THEN [image |-> im[p], mask |-> ImgMask(p), variance |-> ImgVar(p)]
    ELSE g

imgBBox == BoxOfPixels(DOMAIN img)

\* lines 706-724: the checks on the lengths and on the boxes.  The check
\* of the parent image's box sits inside the loop over the templates.
LengthError == Len(timgs) # Len(tfoots)

TemplateBoxError(i) ==
    ~BoxContainsBox(timgs[i].bb, getBBox(tfoots[i]))

ImageBoxError == ~BoxContainsBox(imgBBox, getBBox(foot))

CheckFails ==
    \/ LengthError
    \/ \E i \in 1..Len(timgs) : TemplateBoxError(i) \/ ImageBoxError

ApCheck ==
    /\ op = "apportionFlux" /\ apPc = "check"
    /\ apPc' = IF CheckFails THEN "error" ELSE "tsum"
    /\ UNCHANGED <<op, symVars, tmplVars, monoVars, nfVars, medVars, edgeVars>>
    /\ UNCHANGED <<timgs, tfoots, tsum, tsum0, ispsf, pkx, pky, strays,
                   strayFluxOptions, clipStrayFluxFraction, portions, nearest,
                   straySpans, straypix, straymask, strayvar, oobWrite>>

\* lines 736-744: allocate tsum over the footprint's box when it is null,
\* then require its box to contain the footprint's.
ApTsum ==
    /\ op = "apportionFlux" /\ apPc = "tsum"
    /\ LET fbb == getBBox(foot)
           t1  == IF tsum.null
                  THEN [null |-> FALSE, bb |-> fbb, v |-> NewImage(fbb)]
                  ELSE tsum
       IN  /\ tsum' = t1
           /\ apPc' = IF BoxContainsBox(t1.bb, fbb) THEN "sum" ELSE "error"
    /\ UNCHANGED <<op, symVars, tmplVars, monoVars, nfVars, medVars, edgeVars>>
    /\ UNCHANGED <<timgs, tfoots, tsum0, ispsf, pkx, pky, strays,
                   strayFluxOptions, clipStrayFluxFraction, portions, nearest,
                   straySpans, straypix, straymask, strayvar, oobWrite>>

\* _sum_templates: *tsum_it += max(0, *in_it) over the template's box
\* clipped to tsum's, one template after the other.
SumOne(tv, timg, sumbb) ==
    LET tbb == BoxClip(timg.bb, sumbb)
    IN  [p \in DOMAIN tv |->
            IF BoxContains(tbb, p) THEN tv[p] + Max(0, timg.v[p]) ELSE tv[p]]

RECURSIVE sum_templates(_, _, _, _)
sum_templates(ts, tv, sumbb, i) ==
    IF i > Len(ts) THEN tv
    ELSE sum_templates(ts, SumOne(tv, ts[i], sumbb), sumbb, i + 1)

ApSum ==
    /\ op = "apportionFlux" /\ apPc = "sum"
    /\ tsum' = [tsum EXCEPT !.v = sum_templates(timgs, tsum.v, tsum.bb, 1)]
    /\ apPc' = "portions"
    /\ UNCHANGED <<op, symVars, tmplVars, monoVars, nfVars, medVars, edgeVars>>
    /\ UNCHANGED <<timgs, tfoots, tsum0, ispsf, pkx, pky, strays,
                   strayFluxOptions, clipStrayFluxFraction, portions, nearest,
                   straySpans, straypix, straymask, strayvar, oobWrite>>

\* lines 753-790: the portion of template timg, over the template's box.
\* Inside the box clipped to tsum's, where tsum is not 0, the parent's pixel
\* times max(0, template) / tsum; everywhere else the allocation default.
PortionOf_noMask(timg, tv, sumbb, im, g) ==
    LET tbb == BoxClip(timg.bb, sumbb)
    IN  [p \in BoxPixels(timg.bb) |->
            IF BoxContains(tbb, p) /\ tv[p] # 0
            THEN LET frac == Q(Max(0, timg.v[p]), tv[p])
                     in   == ReadParent(im, p, g)
                 IN  [image    |-> QMul(QInt(in.image), frac),
                      mask     |-> 0,
                      variance |-> in.variance]
            ELSE ZeroPixel]

PortionOf(timg, tv, sumbb, im, g) ==
    LET tbb == BoxClip(timg.bb, sumbb)
    IN  [p \in BoxPixels(timg.bb) |->
            IF BoxContains(tbb, p) /\ tv[p] # 0
            THEN LET frac == Q(Max(0, timg.v[p]), tv[p])
                     in   == ReadParent(im, p, g)
                 IN  [image    |-> QMul(QInt(in.image), frac),
                      mask     |-> in.mask,
                      variance |-> in.variance]
            ELSE ZeroPixel]

\* the parent image is read outside its box while the portions are computed
PortionReadsOutside(ts, tv, sumbb, im) ==
    \E i \in 1..Len(ts) :
        \E p \in BoxPixels(BoxClip(ts[i].bb, sumbb)) :
            tv[p] # 0 /\ p \notin DOMAIN im

ApPortions ==
    /\ op = "apportionFlux" /\ apPc = "portions"
    /\ \E g \in ApGarbage :
         portions' = [i \in 1..Len(timgs) |->
                        PortionOf(timgs[i], tsum.v, tsum.bb, img, g)]
    /\ oobRead' = (oobRead \/ PortionReadsOutside(timgs, tsum.v, tsum.bb, img))
    /\ apPc' = IF HasBit(strayFluxOptions, ASSIGN_STRAYFLUX)
               THEN "straycheck" ELSE "return"
    /\ UNCHANGED <<op, foot, cx, cy, symPc, fwd, back, dy, tmpSpans, sfoot>>
    /\ UNCHANGED <<tmplVars, monoVars, nfVars, medVars, edgeVars>>
    /\ UNCHANGED <<timgs, tfoots, tsum, tsum0, ispsf, pkx, pky, strays,
                   strayFluxOptions, clipStrayFluxFraction, nearest,
                   straySpans, straypix, straymask, strayvar, oobWrite>>

\* return portions
ApReturn ==
    /\ op = "apportionFlux" /\ apPc = "return"
    /\ apPc' = "done"
    /\ UNCHANGED <<op, symVars, tmplVars, monoVars, nfVars, medVars, edgeVars>>
    /\ UNCHANGED <<timgs, tfoots, tsum, tsum0, ispsf, pkx, pky, strays,
                   strayFluxOptions, clipStrayFluxFraction, portions, nearest,
                   straySpans, straypix, straymask, strayvar, oobWrite>>

\* the template lists: up to ApN templates with their footprints, and one
\* list whose footprints are one short
ApTemplateLists ==
    {[ts |-> [i \in 1..Len(l) |-> l[i].timg],
      tf |-> [i \in 1..Len(l) |-> l[i].tfoot]] :
        l \in UNION {[1..n -> ApTemplates] : n \in 0..ApN}} \cup
    {[ts |-> <<t.timg>>, tf |-> <<>>] : t \in ApTemplates}

\* what every call starts from, whatever its arguments
ApEntry ==
    /\ op = "apportionFlux"
    /\ apPc = "check"
    /\ tsum0 = tsum
    /\ portions = <<>> /\ nearest = <<>>
    /\ straySpans = <<>> /\ straypix = <<>> /\ straymask = <<>>
    /\ strayvar = <<>> /\ oobWrite = FALSE
    /\ cx = 0 /\ cy = 0 /\ sfoot = Null /\ oobRead = FALSE
    /\ SweepIdle /\ MonoIdle /\ NfIdle /\ MedIdle /\ EdgeIdle
    /\ edgeMask = {} /\ minZero = FALSE /\ patchEdge = FALSE
    /\ tmplPc = "idle" /\ touchesEdge = FALSE /\ targetimg = <<>>
    /\ patchedEdges = FALSE

\* calls without ASSIGN_STRAYFLUX
ApInit ==
    /\ \E im \in ApParentImages : img = im.v
    /\ foot \in ApFootprints
    /\ \E l \in ApTemplateLists : timgs = l.ts /\ tfoots = l.tf
    /\ tsum \in ApTsums
    /\ ispsf = <<>> /\ pkx = <<>> /\ pky = <<>> /\ strays = <<>>
    /\ strayFluxOptions = 0
    /\ clipStrayFluxFraction = QInt(0)
    /\ ApEntry

ApNext == ApCheck \/ ApTsum \/ ApSum \/ ApPortions \/ ApReturn

SpecApportion == ApInit /\ [][ApNext]_vars

ApDone == op = "apportionFlux" /\ apPc = "done"

\* the sum over the templates whose box contains p of max(0, timgs[i](p))
RECURSIVE TemplateSum(_, _, _)
TemplateSum(ts, p, i) ==
    IF i = 0 THEN 0
    ELSE TemplateSum(ts, p, i - 1) +
         (IF BoxContains(ts[i].bb, p) THEN Max(0, ts[i].v[p]) ELSE 0)

\* C11: after apportionFlux returns, tsum(p) is the sum over the templates
\* whose box contains p of max(0, timgs[i](p)), for every pixel p of tsum's
\* box, whether tsum was null or supplied and whatever it held before.
C11_TsumIsTemplateSum ==
    ApDone =>
        \A p \in BoxPixels(tsum.bb) :
            tsum.v[p] = TemplateSum(timgs, p, Len(timgs))

C11_Witness ==
    /\ ApDone /\ ~tsum0.null /\ Len(timgs) > 0
    /\ \E p \in BoxPixels(tsum.bb) :
         tsum0.v[p] > 0 /\ TemplateSum(timgs, p, Len(timgs)) > 0

\* C12: portions has one entry per template, over the template's box; at
\* every pixel p of the template's box and tsum's box where tsum(p) # 0 the
\* portion holds I.image(p) * max(0, timgs[i](p)) / tsum(p) with I's mask and
\* variance at p, and every other pixel of the portion is 0.
C12_Portions ==
    ApDone =>
        /\ Len(portions) = Len(timgs)
        /\ \A i \in 1..Len(timgs) :
             /\ DOMAIN portions[i] = BoxPixels(timgs[i].bb)
             /\ \A p \in BoxPixels(timgs[i].bb) :
                  IF BoxContains(tsum.bb, p) /\ tsum.v[p] # 0
                  THEN p \in DOMAIN img =>
                         /\ portions[i][p].image =
                                Q(img[p] * Max(0, timgs[i].v[p]), tsum.v[p])
                         /\ portions[i][p].mask = ImgMask(p)
                         /\ portions[i][p].variance = ImgVar(p)
                  ELSE portions[i][p] = ZeroPixel

\* two templates share a pixel's flux unequally, and another pixel of the
\* same portion has tsum = 0
C12_Witness ==
    /\ ApDone /\ Len(timgs) = 2
    /\ \E p \in BoxPixels(timgs[1].bb) \cap DOMAIN img :
         /\ BoxContains(tsum.bb, p) /\ tsum.v[p] > 1
         /\ QLess(QInt(0), portions[1][p].image)
         /\ QLess(portions[1][p].image, QInt(img[p]))
    /\ \E p \in BoxPixels(timgs[1].bb) :
         BoxContains(tsum.bb, p) /\ tsum.v[p] = 0

\* the sum over the templates of portions[i].image(p)
PortionSum(p) ==
    QSum([i \in 1..Len(portions) |->
             IF p \in DOMAIN portions[i] THEN portions[i][p].image
             ELSE QInt(0)],
         Len(portions))

\* C13: without stray flux, if tsum(p) > 0 on every pixel of the parent
\* footprint, the portions add up to I.image(p) on every pixel of F.
C13_FluxConserved ==
    (ApDone /\ \A p \in PixelsOf(foot) :
                   BoxContains(tsum.bb, p) /\ tsum.v[p] > 0) =>
        \A p \in PixelsOf(foot) \cap DOMAIN img :
            PortionSum(p) = QInt(img[p])

\* the same with a tsum that started as zero: the portions do add up
C13_ConservedFromZeroTsum ==
    (/\ ApDone
     /\ \A p \in PixelsOf(foot) : BoxContains(tsum.bb, p) /\ tsum.v[p] > 0
     /\ tsum0.null \/ \A p \in BoxPixels(tsum0.bb) : tsum0.v[p] = 0) =>
        \A p \in PixelsOf(foot) \cap DOMAIN img :
            PortionSum(p) = QInt(img[p])

\* a listed precondition of apportionFlux does not hold of the arguments
PreconditionViolated ==
    \/ Len(timgs) # Len(tfoots)
    \/ \E i \in 1..Len(timgs) :
         ~BoxContainsBox(timgs[i].bb, getBBox(tfoots[i]))
    \/ ~BoxContainsBox(BoxOfPixels(DOMAIN img), getBBox(foot))
    \/ ~tsum0.null /\ ~BoxContainsBox(tsum0.bb, getBBox(foot))
    \/ /\ HasBit(strayFluxOptions, ASSIGN_STRAYFLUX)
       /\ \/ Len(pkx) # Len(timgs)
          \/ Len(pky) # Len(timgs)
          \/ Len(ispsf) \notin {0, Len(timgs)}

\* C15: a call whose arguments violate a listed precondition, an empty
\* template list included, ends in an error and never returns portions.
C15_ErrorOnViolation ==
    ApDone => ~PreconditionViolated

\* with at least one template the violations are all caught
C15_ErrorOnViolationWithTemplates ==
    (ApDone /\ Len(timgs) > 0) => ~PreconditionViolated

(***************************************************************************)
(* _find_stray_flux: the stray flux of a call with ASSIGN_STRAYFLUX.  The  *)
(* weights are exact fractions.                                            *)
(***************************************************************************)

\* the pixels of a span list in the order the code visits them
PixelSeqOfSpan_down(sp) == [k \in 1..(sp.x1 - sp.x0 + 1) |-> <<sp.x1 - k + 1, sp.y>>]

PixelSeqOfSpan(sp) == [k \in 1..(sp.x1 - sp.x0 + 1) |-> <<sp.x0 + k - 1, sp.y>>]

RECURSIVE PixelSeq(_, _)
PixelSeq(spans, k) ==
    IF k = 0 THEN <<>>
    ELSE PixelSeq(spans, k - 1) \o PixelSeqOfSpan(spans[k])

\* lines 368-384: mindx * mindx + dy * dy of one span
SpanR2_noDy(x, y, sp) ==
    LET mindx == IF sp.x0 - x >= 0 THEN sp.x0 - x
                 ELSE IF x - sp.x1 >= 0 THEN x - sp.x1
                 ELSE 0
    IN  mindx * mindx

SpanR2(x, y, sp) ==
    LET mindx == IF sp.x0 - x >= 0 THEN sp.x0 - x
                 ELSE IF x - sp.x1 >= 0 THEN x - sp.x1
                 ELSE 0
        ddy   == sp.y - y
    IN  mindx * mindx + ddy * ddy

\* minr2 after the first k spans.  The start value 1e12 is above every
\* squared distance between pixels, so with one span or more the minimum is
\* the least of the spans' values; a footprint without spans (weight
\* 1 / (1 + 1e12)) is not among the template footprints of SpecStray.
RECURSIVE minr2(_, _, _, _)
minr2(x, y, tfoot, k) ==
    IF k = 1 THEN SpanR2(x, y, tfoot[1])
    ELSE Min(minr2(x, y, tfoot, k - 1), SpanR2(x, y, tfoot[k]))

get_contrib_r_to_footprint(x, y, tfoot) ==
    Q(1, 1 + minr2(x, y, tfoot, Len(tfoot)))

always == HasBit(strayFluxOptions, STRAYFLUX_TO_POINT_SOURCES_ALWAYS)

\* lines 442-458: the footprints handed to nearestFootprint
footlist ==
    IF ~always /\ Len(ispsf) > 0
    THEN [i \in 1..Len(tfoots) |-> IF ispsf[i] THEN <<>> ELSE tfoots[i]]
    ELSE tfoots

\* a span list in the pixel coordinates of an image whose origin is (bx, by)
Local(spans, bx, by) ==
    [k \in 1..Len(spans) |->
        Span(spans[k].y - by, spans[k].x0 - bx, spans[k].x1 - bx)]

\* lines 57-67 on images over sumbb
RECURSIVE StampAll(_, _, _, _)
StampAll(st, fl, sumbb, k) ==
    IF k = 0 THEN st
    ELSE LET t  == StampAll(st, fl, sumbb, k - 1)
             sp == Local(fl[k], sumbb.minX, sumbb.minY)
         IN  [dist   |-> setImage(t.dist, sp, 1),
              argmin |-> setImage(t.argmin, sp, UInt16(k - 1))]

\* nearestFootprint(*footlist, nearest, dist) on images over sumbb
NearestOver(fl, sumbb) ==
    LET w    == sumbb.maxX - sumbb.minX + 1
        h    == sumbb.maxY - sumbb.minY + 1
        grid == (0..(w - 1)) \X (0..(h - 1))
        z    == [dist   |-> [p \in grid |-> 0],
                 argmin |-> [p \in grid |-> 0]]
        st   == StampAll(z, fl, sumbb, Len(fl))
        res  == BackwardSweep(ForwardSweep(st, 0, w, h), w * h - 1, w, h)
    IN  [p \in BoxPixels(sumbb) |->
            res.argmin[<<p[1] - sumbb.minX, p[2] - sumbb.minY>>]]

\* lines 792-802
StrayLengthError ==
    \/ Len(ispsf) > 0 /\ Len(ispsf) # Len(timgs)
    \/ Len(pkx) # Len(timgs)
    \/ Len(pky) # Len(timgs)

ApStrayCheck ==
    /\ op = "apportionFlux" /\ apPc = "straycheck"
    /\ apPc' = IF StrayLengthError THEN "error" ELSE "nearest"
    /\ UNCHANGED <<op, symVars, tmplVars, monoVars, nfVars, medVars, edgeVars>>
    /\ UNCHANGED <<timgs, tfoots, tsum, tsum0, ispsf, pkx, pky, strays,
                   strayFluxOptions, clipStrayFluxFraction, portions, nearest,
                   straySpans, straypix, straymask, strayvar, oobWrite>>

\* lines 411-460
FsNearest ==
    /\ op = "apportionFlux" /\ apPc = "nearest"
    /\ nearest' = IF HasBit(strayFluxOptions, STRAYFLUX_NEAREST_FOOTPRINT)
                  THEN NearestOver(footlist, tsum.bb)
                  ELSE <<>>
    /\ straySpans' = [i \in 1..Len(tfoots) |-> <<>>]
    /\ straypix' = [i \in 1..Len(tfoots) |-> <<>>]
    /\ straymask' = [i \in 1..Len(tfoots) |-> <<>>]
    /\ strayvar' = [i \in 1..Len(tfoots) |-> <<>>]
    /\ apPc' = "scan"
    /\ UNCHANGED <<op, symVars, tmplVars, monoVars, nfVars, medVars, edgeVars>>
    /\ UNCHANGED <<timgs, tfoots, tsum, tsum0, ispsf, pkx, pky, strays,
                   strayFluxOptions, clipStrayFluxFraction, portions,
                   oobWrite>>

\* line 478, negated: the pixel is not skipped
IsStray(p, in) == ~(tsum.v[p] > 0 \/ in.image <= 0)

\* contrib[i] == -1.0
Unset == QInt(-1)

\* lines 498-500
PeakContrib_noDy(i, p) ==
    LET pdx == pkx[i] - p[1]
    IN  Q(1, 1 + pdx * pdx)

PeakContrib(i, p) ==
    LET pdx == pkx[i] - p[1]
        pdy == pky[i] - p[2]
    IN  Q(1, 1 + pdx * pdx + pdy * pdy)

\* the mode of lines 482-502
UsesFootprintDistance == HasBit(strayFluxOptions, STRAYFLUX_R_TO_FOOTPRINT)

UsesNearest ==
    /\ ~HasBit(strayFluxOptions, STRAYFLUX_R_TO_FOOTPRINT)
    /\ HasBit(strayFluxOptions, STRAYFLUX_NEAREST_FOOTPRINT)

\* lines 482-502: contrib before round 1.  In the nearest mode a label that
\* is no index of contrib leaves every entry 0 (the 1.0 lands outside).
InitialContrib(p) ==
    [i \in 1..Len(tfoots) |->
        IF UsesFootprintDistance THEN Unset
        ELSE IF UsesNearest
             THEN (IF nearest[p] = i - 1 THEN QInt(1) ELSE QInt(0))
             ELSE PeakContrib(i, p)]

\* (!ptsrcs) && ispsf.size() && ispsf[i]
Skipped_never(i, ptsrcs) == FALSE

Skipped(i, ptsrcs) == ~ptsrcs /\ Len(ispsf) > 0 /\ ispsf[i]

\* lines 513-515 and 525-527
JustInTime(c, i, p) ==
    IF c[i] = Unset THEN get_contrib_r_to_footprint(p[1], p[2], tfoots[i])
    ELSE c[i]

\* lines 506-517
Round1(c, p) ==
    LET c1 == [i \in 1..Len(c) |->
                 IF Skipped(i, always) THEN c[i] ELSE JustInTime(c, i, p)]
    IN  [contrib |-> c1,
         csum    |-> QSum([i \in 1..Len(c) |->
                              IF Skipped(i, always) THEN QInt(0) ELSE c1[i]],
                          Len(c)),
         ptsrcs  |-> always]

\* lines 518-530
WhenNecessary(r, p) ==
    IF /\ r.csum = QInt(0)
       /\ HasBit(strayFluxOptions, STRAYFLUX_TO_POINT_SOURCES_WHEN_NECESSARY)
    THEN LET c2 == [i \in 1..Len(r.contrib) |-> JustInTime(r.contrib, i, p)]
         IN  [contrib |-> c2,
              csum    |-> QAdd(r.csum, QSum(c2, Len(c2))),
              ptsrcs  |-> TRUE]
    ELSE r

\* lines 533-547
DropSmall_keepSum(r) ==
    LET strayclip == QMul(clipStrayFluxFraction, r.csum)
        c3 == [i \in 1..Len(r.contrib) |->
                 IF Skipped(i, r.ptsrcs) THEN QInt(0)
                 ELSE IF QLess(r.contrib[i], strayclip) THEN QInt(0)
                 ELSE r.contrib[i]]
    IN  [contrib |-> c3, csum |-> r.csum, ptsrcs |-> r.ptsrcs]

DropSmall_orEqual(r) ==
    LET strayclip == QMul(clipStrayFluxFraction, r.csum)
        c3 == [i \in 1..Len(r.contrib) |->
                 IF Skipped(i, r.ptsrcs) THEN QInt(0)
                 ELSE IF ~QLess(strayclip, r.contrib[i]) THEN QInt(0)
                 ELSE r.contrib[i]]
    IN  [contrib |-> c3, csum |-> QSum(c3, Len(c3)), ptsrcs |-> r.ptsrcs]

DropSmall(r) ==
    LET strayclip == QMul(clipStrayFluxFraction, r.csum)
        c3 == [i \in 1..Len(r.contrib) |->
                 IF Skipped(i, r.ptsrcs) THEN QInt(0)
                 ELSE IF QLess(r.contrib[i], strayclip) THEN QInt(0)
                 ELSE r.contrib[i]]
    IN  [contrib |-> c3, csum |-> QSum(c3, Len(c3)), ptsrcs |-> r.ptsrcs]

\* contrib and csum at line 549
Contribs(p) == DropSmall(WhenNecessary(Round1(InitialContrib(p), p), p))

\* line 554
StrayShare(r, i, in) == QMul(QDiv(r.contrib[i], r.csum), QInt(in.image))

\* line 491-492 writes contrib[i] with i no index of contrib
BadLabel(p) == UsesNearest /\ nearest[p] \notin 0..(Len(tfoots) - 1)

\* lines 464-566
FsScan ==
    /\ op = "apportionFlux" /\ apPc = "scan"
    /\ \E g \in IF PixelsOf(foot) \subseteq DOMAIN img
                THEN {ZeroPixel} ELSE ApGarbage :
         LET In(p)     == ReadParent(img, p, g)
             Stray(p)  == IsStray(p, In(p))
             strayseq  == SelectSeq(PixelSeq(foot, Len(foot)), Stray)
             bad       == \E k \in 1..Len(strayseq) : BadLabel(strayseq[k])
             Given(i)  ==
                 LET Gets(p) == Contribs(p).contrib[i] # QInt(0)
                 IN  SelectSeq(strayseq, Gets)
         IN  /\ oobWrite' = bad
             /\ oobRead' = (oobRead \/ \E p \in PixelsOf(foot) :
                               ~(tsum.v[p] > 0) /\ p \notin DOMAIN img)
             /\ \/ /\ apPc' = "store"
                   /\ straySpans' = [i \in 1..Len(tfoots) |->
                        [k \in 1..Len(Given(i)) |->
                            Span(Given(i)[k][2], Given(i)[k][1],
                                 Given(i)[k][1])]]
                   /\ straypix' = [i \in 1..Len(tfoots) |->
                        [k \in 1..Len(Given(i)) |->
                            StrayShare(Contribs(Given(i)[k]), i,
                                       In(Given(i)[k]))]]
                   /\ straymask' = [i \in 1..Len(tfoots) |->
                        [k \in 1..Len(Given(i)) |-> In(Given(i)[k]).mask]]
                   /\ strayvar' = [i \in 1..Len(tfoots) |->
                        [k \in 1..Len(Given(i)) |-> In(Given(i)[k]).variance]]
                \/ /\ bad
                   /\ apPc' = "crash"
                   /\ UNCHANGED <<straySpans, straypix, straymask, strayvar>>
    /\ UNCHANGED <<op, foot, cx, cy, symPc, fwd, back, dy, tmpSpans, sfoot>>
    /\ UNCHANGED <<tmplVars, monoVars, nfVars, medVars, edgeVars>>
    /\ UNCHANGED <<timgs, tfoots, tsum, tsum0, ispsf, pkx, pky, strays,
                   strayFluxOptions, clipStrayFluxFraction, portions, nearest>>

\* a null HeavyFootprint pointer
NullHeavy ==
    [null |-> TRUE, spans |-> <<>>, image |-> <<>>, mask |-> <<>>,
     variance |-> <<>>]

\* lines 569-604
FsStore ==
    /\ op = "apportionFlux" /\ apPc = "store"
    /\ strays' = strays \o
         [i \in 1..Len(tfoots) |->
            IF straySpans[i] = <<>> THEN NullHeavy
            ELSE [null     |-> FALSE,
                  spans    |-> SpanSet(straySpans[i]),
                  image    |-> straypix[i],
                  mask     |-> straymask[i],
                  variance |-> strayvar[i]]]
    /\ apPc' = "return"
    /\ UNCHANGED <<op, symVars, tmplVars, monoVars, nfVars, medVars, edgeVars>>
    /\ UNCHANGED <<timgs, tfoots, tsum, tsum0, ispsf, pkx, pky,
                   strayFluxOptions, clipStrayFluxFraction, portions, nearest,
                   straySpans, straypix, straymask, strayvar, oobWrite>>

\* the templates of the calls with stray flux: a template that covers the
\* left of row 0, peak at the first pixel, and one that is positive on the
\* last column only, peak at the last pixel; each with a footprint of one
\* span inside tsum's box
StrayTemplates ==
    {[timg |-> ApImage(ApSmallBox, 2), tfoot |-> <<Span(0, 0, 0)>>,
      pk |-> <<0, 0>>],
     [timg |-> ApImage(ApWorld, 3), tfoot |-> <<Span(ApH - 1, 1, ApW - 1)>>,
      pk |-> <<ApW - 1, ApH - 1>>]}

\* the calls with n templates, m peaks and q point-source flags
StrayCallsOf(n, m, q) ==
    {[ts |-> [i \in 1..n |-> l[i].timg],
      tf |-> [i \in 1..n |-> l[i].tfoot],
      px |-> [i \in 1..m |-> l[i].pk[1]],
      py |-> [i \in 1..m |-> l[i].pk[2]],
      psf |-> psf] :
        l \in [1..n -> StrayTemplates],
        psf \in [1..q -> BOOLEAN]}

\* timgs, tfoots, pkx, pky and ispsf of a call: lists of matching lengths,
\* and two calls with a list of the wrong length
StrayCalls ==
    UNION {StrayCallsOf(n, n, 0) \cup StrayCallsOf(n, n, n) : n \in 0..ApN} \cup
    StrayCallsOf(1, 0, 0) \cup StrayCallsOf(0, 0, 1)

\* the tsum supplied: all zero, or 1 on the first pixel of the last row
StrayTsums ==
    {[null |-> FALSE, bb |-> ApWorld,
      v |-> [p \in BoxPixels(ApWorld) |->
                IF p = <<0, ApH - 1>> THEN c ELSE 0]] : c \in {0, 1}}

\* the parent footprint: the first or the last row of the grid
StrayFootprints == {<<Span(0, 0, ApW - 1)>>, <<Span(ApH - 1, 0, ApW - 1)>>}

ClipFractions == {QInt(0), Q(1, 2), Q(9, 10)}

\* calls with ASSIGN_STRAYFLUX and a tsum over the whole grid
StrayInit ==
    /\ \E im \in {ApImage(ApWorld, 0), ApImage(ApWorld, 1)} : img = im.v
    /\ foot \in StrayFootprints
    /\ \E c \in StrayCalls :
         /\ timgs = c.ts /\ tfoots = c.tf
         /\ pkx = c.px /\ pky = c.py /\ ispsf = c.psf
    /\ tsum \in StrayTsums
    /\ strays = <<>>
    /\ strayFluxOptions \in
         {ASSIGN_STRAYFLUX + b : b \in {2 * k : k \in 0..15}}
    /\ clipStrayFluxFraction \in ClipFractions
    /\ ApEntry

StrayNext ==
    \/ ApCheck \/ ApTsum \/ ApSum \/ ApPortions \/ ApStrayCheck
    \/ FsNearest \/ FsScan \/ FsStore \/ ApReturn

SpecStray == StrayInit /\ [][StrayNext]_vars

\* the scan of _find_stray_flux is over
Scanned == op = "apportionFlux" /\ apPc \in {"store", "crash", "return", "done"}

\* strays[i] records pixel p
HasStray(i, p) == ~strays[i].null /\ p \in PixelsOf(strays[i].spans)

\* what strays[i] holds for its pixel p: the HeavyFootprint keeps its pixels
\* in the order of its spans
StrayPixel(i, p) ==
    LET seq == PixelSeq(strays[i].spans, Len(strays[i].spans))
        k   == CHOOSE j \in 1..Len(seq) : seq[j] = p
    IN  [image    |-> strays[i].image[k],
         mask     |-> strays[i].mask[k],
         variance |-> strays[i].variance[k]]

\* the sum over the templates of the stray value recorded for p
StraySum(p) ==
    QSum([i \in 1..Len(strays) |->
             IF HasStray(i, p) THEN StrayPixel(i, p).image ELSE QInt(0)],
         Len(strays))

\* a pixel of the parent footprint that is stray: not covered by the template
\* sum and positive in the image
StrayPixels == {p \in PixelsOf(foot) : tsum.v[p] = 0 /\ img[p] > 0}

PeakMode ==
    /\ ~HasBit(strayFluxOptions, STRAYFLUX_R_TO_FOOTPRINT)
    /\ ~HasBit(strayFluxOptions, STRAYFLUX_NEAREST_FOOTPRINT)
    /\ \A i \in 1..Len(ispsf) : ~ispsf[i]
    /\ clipStrayFluxFraction = QInt(0)

\* 1 + (pkx[i] - p.x)^2 + (pky[i] - p.y)^2
PeakR2(i, p) ==
    1 + (pkx[i] - p[1]) * (pkx[i] - p[1]) + (pky[i] - p[2]) * (pky[i] - p[2])

C19_NearestLabelValid_AsStated ==
    (Scanned /\ UsesNearest) =>
        \A p \in StrayPixels :
            /\ nearest[p] \in 0..(Len(tfoots) - 1)
            /\ ApDone =>
                 \A i \in 1..Len(tfoots) :
                    IF i = nearest[p] + 1
                    THEN HasStray(i, p) /\
                         StrayPixel(i, p).image = QInt(img[p])
                    ELSE ~HasStray(i, p)

\* the same where the list handed to nearestFootprint has a footprint with
\* pixels: then the claim holds
C19_NearestLabelValidWithFootprints ==
    (/\ Scanned /\ UsesNearest
     /\ \E i \in 1..Len(footlist) : footlist[i] # <<>>) =>
        \A p \in StrayPixels :
            /\ nearest[p] \in 0..(Len(tfoots) - 1)
            /\ ApDone =>
                 \A i \in 1..Len(tfoots) :
                    IF i = nearest[p] + 1
                    THEN HasStray(i, p) /\
                         StrayPixel(i, p).image = QInt(img[p])
                    ELSE ~HasStray(i, p)

\* d2_i: the minimum over the spans of tfoots[i] of
\* max(0, x0 - p.x, p.x - x1)^2 + (y - p.y)^2
FootprintD2(i, p) ==
    SetMin({LET mdx == Max(0, Max(tfoots[i][k].x0 - p[1],
                                   p[1] - tfoots[i][k].x1))
                mdy == tfoots[i][k].y - p[2]
            IN  mdx * mdx + mdy * mdy : k \in 1..Len(tfoots[i])})

FootprintWeight(i, p) == Q(1, 1 + FootprintD2(i, p))

\* template i takes part in the split: it is no point source, or point
\* sources are included (ALWAYS, or WHEN_NECESSARY with point sources only)
Eligible(i) ==
    \/ ~(Len(ispsf) > 0 /\ ispsf[i])
    \/ HasBit(strayFluxOptions, STRAYFLUX_TO_POINT_SOURCES_ALWAYS)
    \/ /\ HasBit(strayFluxOptions, STRAYFLUX_TO_POINT_SOURCES_WHEN_NECESSARY)
       /\ \A j \in 1..Len(ispsf) : ispsf[j]

EligibleWeight(i, p) ==
    IF Eligible(i) THEN FootprintWeight(i, p) ELSE QInt(0)

\* an eligible template whose weight is not below the clip fraction of the
\* sum of the eligible weights
Surviving(i, p) ==
    /\ Eligible(i)
    /\ ~QLess(FootprintWeight(i, p),
              QMul(clipStrayFluxFraction,
                   QSum([j \in 1..Len(tfoots) |-> EligibleWeight(j, p)],
                        Len(tfoots))))

SurvivingWeight(i, p) ==
    IF Surviving(i, p) THEN FootprintWeight(i, p) ELSE QInt(0)

BaseWeight(i, p) ==
    IF HasBit(strayFluxOptions, STRAYFLUX_R_TO_FOOTPRINT)
    THEN FootprintWeight(i, p)
    ELSE IF HasBit(strayFluxOptions, STRAYFLUX_NEAREST_FOOTPRINT)
         THEN (IF nearest[p] = i - 1 THEN QInt(1) ELSE QInt(0))
         ELSE Q(1, PeakR2(i, p))

IsPointSource(i) == Len(ispsf) > 0 /\ ispsf[i]

\* the summed contribution of the templates that are no point sources
ExtendedSum(p) ==
    QSum([j \in 1..Len(tfoots) |->
             IF IsPointSource(j) THEN QInt(0) ELSE BaseWeight(j, p)],
         Len(tfoots))

\* the templates of p that are at or above the clip fraction of the sum of
\* all the weights
AllSurviving(i, p) ==
    /\ BaseWeight(i, p) # QInt(0)
    /\ ~QLess(BaseWeight(i, p),
              QMul(clipStrayFluxFraction,
                   QSum([j \in 1..Len(tfoots) |-> BaseWeight(j, p)],
                        Len(tfoots))))

\* C21: with ispsf supplied and ALWAYS not set, a point source is recorded
\* for a stray pixel p only if WHEN_NECESSARY is set and the templates that
\* are no point sources contribute nothing at p; with ALWAYS set the split
\* is that of a call without point sources.
C21_PointSourcePolicy ==
    (ApDone /\ Len(ispsf) > 0) =>
        \A p \in StrayPixels :
            IF ~HasBit(strayFluxOptions, STRAYFLUX_TO_POINT_SOURCES_ALWAYS)
            THEN \A i \in 1..Len(tfoots) :
                    (ispsf[i] /\ HasStray(i, p)) =>
                        /\ HasBit(strayFluxOptions,
                                  STRAYFLUX_TO_POINT_SOURCES_WHEN_NECESSARY)
                        /\ ExtendedSum(p) = QInt(0)
            ELSE \A i \in 1..Len(tfoots) :
                    IF AllSurviving(i, p)
                    THEN /\ HasStray(i, p)
                         /\ StrayPixel(i, p).image =
                              QDiv(QMul(QInt(img[p]), BaseWeight(i, p)),
                                   QSum([j \in 1..Len(tfoots) |->
                                            IF AllSurviving(j, p)
                                            THEN BaseWeight(j, p)
                                            ELSE QInt(0)], Len(tfoots)))
                    ELSE ~HasStray(i, p)

\* a point source is left out of a pixel that the other template takes
\* whole, and in another call point sources are all there is and
\* WHEN_NECESSARY gives them the pixel
C21_Witness ==
    /\ ApDone /\ Len(tfoots) = 2
    /\ ~HasBit(strayFluxOptions, STRAYFLUX_TO_POINT_SOURCES_ALWAYS)
    /\ clipStrayFluxFraction = QInt(0)
    /\ \/ /\ ispsf = <<TRUE, FALSE>>
          /\ \E p \in StrayPixels :
               /\ ~HasStray(1, p) /\ HasStray(2, p)
               /\ StrayPixel(2, p).image = QInt(img[p])
       \/ /\ ispsf = <<TRUE, TRUE>>
          /\ \E p \in StrayPixels : HasStray(1, p) /\ HasStray(2, p)

\* template i takes part in the split at p
EligibleAt(i, p) ==
    \/ ~IsPointSource(i)
    \/ HasBit(strayFluxOptions, STRAYFLUX_TO_POINT_SOURCES_ALWAYS)
    \/ /\ HasBit(strayFluxOptions, STRAYFLUX_TO_POINT_SOURCES_WHEN_NECESSARY)
       /\ ExtendedSum(p) = QInt(0)

\* csum before the clipping
EligibleSum(p) ==
    QSum([j \in 1..Len(tfoots) |->
             IF EligibleAt(j, p) THEN BaseWeight(j, p) ELSE QInt(0)],
         Len(tfoots))

Kept(i, p) ==
    /\ EligibleAt(i, p)
    /\ QLess(QInt(0), BaseWeight(i, p))
    /\ ~QLess(BaseWeight(i, p), QMul(clipStrayFluxFraction, EligibleSum(p)))

\* C22: at every stray pixel p template i is recorded if and only if it is
\* eligible, contrib[i] > 0 and contrib[i] >= clipStrayFluxFraction * csum,
\* csum being the sum of the eligible contributions; the value recorded is
\* I.image(p) * contrib[i] over the sum of the contributions that are kept.
C22_Clipping ==
    ApDone =>
        \A p \in StrayPixels : \A i \in 1..Len(tfoots) :
            /\ HasStray(i, p) <=> Kept(i, p)
            /\ HasStray(i, p) =>
                 StrayPixel(i, p).image =
                    QDiv(QMul(QInt(img[p]), BaseWeight(i, p)),
                         QSum([j \in 1..Len(tfoots) |->
                                  IF Kept(j, p) THEN BaseWeight(j, p)
                                  ELSE QInt(0)], Len(tfoots)))

\* with clip 1/2, two equal weights are both kept at one pixel (each exactly
\* at the clip level)
C22_Witness ==
    /\ ApDone /\ Len(tfoots) = 2
    /\ clipStrayFluxFraction = Q(1, 2)
    /\ \E p \in StrayPixels :
         /\ HasStray(1, p) /\ HasStray(2, p)
         /\ StrayPixel(1, p).image = Q(img[p], 2)

\* the pixels of a set in lexicographic (y, then x) order
RECURSIVE LexSeq(_)
LexSeq(P) ==
    IF P = {} THEN <<>>
    ELSE LET first == CHOOSE p \in P :
                 \A q \in P : p[2] < q[2] \/ (p[2] = q[2] /\ p[1] <= q[1])
         IN  <<first>> \o LexSeq(P \ {first})

C24_NothingChangedOnError ==
    (op = "apportionFlux" /\ apPc = "error") =>
        /\ ~tsum0.null => tsum = tsum0
        /\ strays = <<>>

\* the same for the errors found before the templates are summed
C24_NothingChangedOnEarlyError ==
    (op = "apportionFlux" /\ apPc = "error" /\ ~StrayLengthError) =>
        /\ ~tsum0.null => tsum = tsum0
        /\ strays = <<>>

(***************************************************************************)
(* hasSignificantFluxAtEdge, getSignificantEdgePixels                      *)
(***************************************************************************)

EdgeGrid == (0..(EdgeW - 1)) \X (0..(EdgeH - 1))

\* SpanSet::findEdgePixels: the set less its erosion by the cross of radius 1,
\* that is the pixels with one of their four neighbours outside the set
findEdgePixels(spans) ==
    LET on == PixelsOf(spans)
    IN  SpanSetOfPixels({p \in on :
            \E q \in {<<p[1] - 1, p[2]>>, <<p[1] + 1, p[2]>>,
                      <<p[1], p[2] - 1>>, <<p[1], p[2] + 1>>} : q \notin on})

\* lines 1397-1409 over the edge pixels from the k-th on
RECURSIVE EdgeScan_strict(_, _, _, _)
EdgeScan_strict(im, seq, th, k) ==
    IF k > Len(seq) THEN FALSE
    ELSE IF im[seq[k]] > th THEN TRUE
    ELSE EdgeScan_strict(im, seq, th, k + 1)

RECURSIVE EdgeScan(_, _, _, _)
EdgeScan(im, seq, th, k) ==
    IF k > Len(seq) THEN FALSE
    ELSE IF im[seq[k]] >= th THEN TRUE
    ELSE EdgeScan(im, seq, th, k + 1)

\* lines 1439-1445: the body of the loop over x
RunStep_closeAtX(im, th, st, x, y) ==
    IF im[<<x, y>>] >= th
    THEN [st EXCEPT !.onSpan = TRUE, !.xSpan = x]
    ELSE IF st.onSpan
         THEN [onSpan |-> FALSE, xSpan |-> st.xSpan,
               spans |-> Append(st.spans, Span(y, st.xSpan, x))]
         ELSE st

RunStep(im, th, st, x, y) ==
    IF im[<<x, y>>] >= th
    THEN [st EXCEPT !.onSpan = TRUE, !.xSpan = x]
    ELSE IF st.onSpan
         THEN [onSpan |-> FALSE, xSpan |-> st.xSpan,
               spans |-> Append(st.spans, Span(y, st.xSpan, x - 1))]
         ELSE st

\* lines 1438-1446: x from x to span.getX1()
RECURSIVE RunLoop(_, _, _, _, _)
RunLoop(im, th, st, sp, x) ==
    IF x > sp.x1 THEN st
    ELSE RunLoop(im, th, RunStep(im, th, st, x, sp.y), sp, x + 1)

\* lines 1432-1449: one edge span; xSpan is read only while onSpan
RunsOfSpan(im, th, acc, sp) ==
    LET st == RunLoop(im, th,
                      [onSpan |-> FALSE, xSpan |-> sp.x0, spans |-> acc],
                      sp, sp.x0)
    IN  IF st.onSpan THEN Append(st.spans, Span(sp.y, st.xSpan, sp.x1))
        ELSE st.spans

\* lines 1431-1450: tmpSpans after the first k edge spans
RECURSIVE SignificantSpans(_, _, _, _)
SignificantSpans(im, th, edge, k) ==
    IF k = 0 THEN <<>>
    ELSE RunsOfSpan(im, th, SignificantSpans(im, th, edge, k - 1), edge[k])

\* the images: a first row, and a row that is repeated up to the top
EdgeRows == [0..(EdgeW - 1) -> 0..EdgeMax]

EdgeImages ==
    {[p \in EdgeGrid |-> IF p[2] = 0 THEN ra[p[1]] ELSE rb[p[1]]] :
        ra \in EdgeRows, rb \in EdgeRows}

\* the footprints: the rectangles of the grid, whole or without their
\* last pixel
EdgeRectangles ==
    {{p \in EdgeGrid : /\ xa <= p[1] /\ p[1] <= xb
                       /\ ya <= p[2] /\ p[2] <= yb} :
        xa \in 0..(EdgeW - 1), xb \in 0..(EdgeW - 1),
        ya \in 0..(EdgeH - 1), yb \in 0..(EdgeH - 1)}

EdgeFootprints ==
    {SpanSetOfPixels(P) : P \in EdgeRectangles} \cup
    {SpanSetOfPixels(P \ {<<SetMax({p[1] : p \in P}),
                            SetMax({p[2] : p \in P})>>}) :
        P \in EdgeRectangles \ {{}}}

EdgeInit ==
    /\ op = "edge"
    /\ img \in EdgeImages
    /\ sfoot \in EdgeFootprints
    /\ thresh \in 1..EdgeMax
    /\ hasEdgeFlux = FALSE /\ significant = Null
    /\ edgePc = "hasSignificantFluxAtEdge"
    /\ foot = <<>> /\ oobRead = FALSE /\ cx = 0 /\ cy = 0
    /\ edgeMask = {} /\ minZero = FALSE /\ patchEdge = FALSE
    /\ tmplPc = "idle" /\ touchesEdge = FALSE /\ targetimg = <<>>
    /\ patchedEdges = FALSE
    /\ SweepIdle /\ MonoIdle /\ NfIdle /\ MedIdle /\ ApIdle

\* hasSignificantFluxAtEdge(img, sfoot, thresh)
HasSignificantFluxAtEdge ==
    /\ op = "edge" /\ edgePc = "hasSignificantFluxAtEdge"
    /\ LET spans == findEdgePixels(sfoot)
       IN  hasEdgeFlux' = EdgeScan(img, PixelSeq(spans, Len(spans)), thresh, 1)
    /\ edgePc' = "getSignificantEdgePixels"
    /\ UNCHANGED <<op, symVars, tmplVars, monoVars, nfVars, medVars, apVars,
                   thresh, significant>>

\* getSignificantEdgePixels(img, sfoot, thresh)
GetSignificantEdgePixels ==
    /\ op = "edge" /\ edgePc = "getSignificantEdgePixels"
    /\ LET edgeSpans == findEdgePixels(sfoot)
       IN  significant' =
               SpanSet(SignificantSpans(img, thresh, edgeSpans, Len(edgeSpans)))
    /\ edgePc' = "done"
    /\ UNCHANGED <<op, symVars, tmplVars, monoVars, nfVars, medVars, apVars,
                   thresh, hasEdgeFlux>>

EdgeNext == HasSignificantFluxAtEdge \/ GetSignificantEdgePixels

SpecEdge == EdgeInit /\ [][EdgeNext]_vars

EdgeDone == op = "edge" /\ edgePc = "done"

\* G's edge pixels: the pixels of G that are not surrounded by G on their
\* four sides
EdgePixelsOf(spans) ==
    {p \in PixelsOf(spans) :
        ~({<<p[1] - 1, p[2]>>, <<p[1] + 1, p[2]>>,
           <<p[1], p[2] - 1>>, <<p[1], p[2] + 1>>} \subseteq PixelsOf(spans))}

\* C16: hasSignificantFluxAtEdge returns true if and only if some edge pixel
\* p of G has T(p) >= thresh.
C16_TrueIffEdgePixelAtThresh ==
    (op = "edge" /\ edgePc # "hasSignificantFluxAtEdge") =>
        (hasEdgeFlux <=> \E p \in EdgePixelsOf(sfoot) : img[p] >= thresh)

\* true is returned for a single edge pixel at thresh while a pixel inside G
\* is below it
C16_Witness ==
    /\ EdgeDone /\ hasEdgeFlux
    /\ Cardinality({p \in EdgePixelsOf(sfoot) : img[p] >= thresh}) = 1
    /\ \E p \in PixelsOf(sfoot) \ EdgePixelsOf(sfoot) : img[p] < thresh

\* C17: the footprint getSignificantEdgePixels returns has as its pixels
\* exactly the edge pixels p of G with T(p) >= thresh.
C17_AllSignificantEdgePixels ==
    EdgeDone =>
        PixelsOf(significant) =
            {p \in EdgePixelsOf(sfoot) : img[p] >= thresh}

\* C30: the two edge operations agree: hasSignificantFluxAtEdge is true if
\* and only if getSignificantEdgePixels returns a footprint with pixels, and
\* every pixel of that footprint is an edge pixel of G with T(p) >= thresh.
C30_EdgeOperationsAgree ==
    EdgeDone =>
        /\ hasEdgeFlux <=> significant # <<>>
        /\ \A p \in PixelsOf(significant) :
             p \in EdgePixelsOf(sfoot) /\ img[p] >= thresh

\* both see significant flux: a run of two edge pixels at thresh, of which
\* the footprint returned holds one, next to an edge pixel below thresh
C30_Witness ==
    /\ EdgeDone /\ hasEdgeFlux /\ significant # <<>>
    /\ \E p \in EdgePixelsOf(sfoot) :
         /\ img[p] >= thresh /\ p \notin PixelsOf(significant)
         /\ <<p[1] + 1, p[2]>> \in PixelsOf(significant)
    /\ \E p \in EdgePixelsOf(sfoot) : img[p] < thresh

====
